---- MODULE Spec2Model ----
(***************************************************************************)
(* taggolib: New() sniffs the magic number of a seekable byte stream and   *)
(* hands the stream to the FLAC, MP3 (ID3v2) or Ogg Vorbis parser.         *)
(* Bytes are the integers 0..255; strings are sequences of bytes; a reader *)
(* is a byte sequence with a 0-based offset.                               *)
(***************************************************************************)
EXTENDS Integers, Sequences, FiniteSets, TLC

VARIABLES
    stream,      \* the bytes behind the caller's io.ReadSeeker
    pos,         \* offset of the caller's reader
    low,         \* lowest offset a parser has read the stream from (-1: none)
    pc,          \* the parsing step New is about to run
    err,         \* the error New returns ("nil" when none)
    parser,      \* the Parser New returns ("nil" when none), by its Format()
    format,      \* the parser under construction
    mem,         \* the in-memory bytes.Reader a parser replaced its reader by
    tags,        \* parser.tags
    encoder,     \* parser.encoder
    properties,  \* FLACParser.properties
    id3Header,   \* mp3Parser.id3Header
    mp3Header,   \* mp3Parser.mp3Header
    xingHeader,  \* mp3Parser.xingHeader
    frameBuf,    \* parseID3v2Frames: the frame title buffer
    tagBuf,      \* parseID3v2Frames: the 2048-byte frame buffer
    headerBuf,   \* parseMP3Header: the header buffer
    idHeader,    \* oggVorbisParser.idHeader
    duration,    \* oggVorbisParser.duration, in seconds
    buffer,      \* oggVorbisParser.buffer
    tagMap,      \* the tagMap a tag loop is filling
    todo,        \* comments left to read in the comment loop being run
    build,       \* what the build of the program still leaves open
    earlier      \* what an earlier call of New on the same bytes returned

vars == <<stream, pos, low, pc, err, parser, format, mem, tags, encoder, properties,
          id3Header, mp3Header, xingHeader, frameBuf, tagBuf, headerBuf,
          idHeader, duration, buffer, tagMap, todo, build, earlier>>

flacVars == <<properties>>
mp3Vars == <<id3Header, mp3Header, xingHeader, frameBuf, tagBuf, headerBuf>>
oggVars == <<idHeader, duration, buffer>>

\* ------------------------------------------------------------ bytes, text

Min(a, b) == IF a < b THEN a ELSE b

Zeros(n) == [i \in 1..n |-> 0]

\* string(b[from:to]) with 0-based, half-open bounds, as a Go slice expression
Slice(b, from, to) == SubSeq(b, from + 1, to)

\* copy(dst, src) for a src no longer than dst: src over the start of dst,
\* the rest of dst kept
Copy(dst, src) == src \o SubSeq(dst, Len(src) + 1, Len(dst))

\* bytes.Index(b, sep): 0-based index of the first sep in b, -1 if none
Index(b, sep) ==
    LET S == {i \in 0..(Len(b) - Len(sep)) :
                 \A k \in 1..Len(sep) : b[i + k] = sep[k]}
    IN IF S = {} THEN -1 ELSE CHOOSE i \in S : \A j \in S : i <= j

\* bytes.LastIndex(b, sep)
LastIndex(b, sep) ==
    LET S == {i \in 0..(Len(b) - Len(sep)) :
                 \A k \in 1..Len(sep) : b[i + k] = sep[k]}
    IN IF S = {} THEN -1 ELSE CHOOSE i \in S : \A j \in S : i >= j

\* strings.ToUpper on ASCII text
UpperByte(c) == IF c >= 97 /\ c <= 122 THEN c - 32 ELSE c
ToUpper(s) == [i \in 1..Len(s) |-> UpperByte(s[i])]

\* strings.Split(s, sep) for a one-byte sep: the pieces between separators
RECURSIVE Split(_, _)
Split(s, sep) ==
    LET i == Index(s, <<sep>>)
    IN IF i = -1 THEN <<s>>
       ELSE <<Slice(s, 0, i)>> \o Split(Slice(s, i + 1, Len(s)), sep)

\* strconv.Atoi: an optional sign, then decimal digits only
IsDigit(c) == c >= 48 /\ c <= 57
RECURSIVE DigitsVal(_)
DigitsVal(s) ==
    IF s = <<>> THEN 0
    ELSE 10 * DigitsVal(Slice(s, 0, Len(s) - 1)) + (s[Len(s)] - 48)
Atoi(s) ==
    LET signed == s # <<>> /\ s[1] \in {43, 45}
        digits == IF signed THEN Slice(s, 1, Len(s)) ELSE s
    IN IF digits = <<>> \/ \E i \in 1..Len(digits) : ~IsDigit(digits[i])
       THEN [ok |-> FALSE, val |-> 0]
       ELSE [ok |-> TRUE,
             val |-> IF signed /\ s[1] = 45 THEN 0 - DigitsVal(digits)
                     ELSE DigitsVal(digits)]

\* a Go map as a function; m[k] of a missing key is the zero value
Lookup(m, k, zero) == IF k \in DOMAIN m THEN m[k] ELSE zero
Store(m, k, v) == [x \in (DOMAIN m) \cup {k} |-> IF x = k THEN v ELSE m[x]]
EmptyMap == [x \in {} |-> <<>>]

\* ------------------------------------------------------------ integers

\* big-endian and little-endian unsigned integers of a byte sequence
RECURSIVE BigEndian(_)
BigEndian(b) ==
    IF b = <<>> THEN 0
    ELSE 256 * BigEndian(Slice(b, 0, Len(b) - 1)) + b[Len(b)]
RECURSIVE LittleEndian(_)
LittleEndian(b) ==
    IF b = <<>> THEN 0 ELSE b[1] + 256 * LittleEndian(Slice(b, 1, Len(b)))

\* bit i (0-based, most significant bit of the first byte first) of b
BitAt(b, i) == (b[(i \div 8) + 1] \div (2 ^ (7 - (i % 8)))) % 2

\* the unsigned value of the n bits of b that start at bit `from`
RECURSIVE BitField(_, _, _)
BitField(b, from, n) ==
    IF n = 0 THEN 0
    ELSE 2 * BitField(b, from, n - 1) + BitAt(b, from + n - 1)

\* the n bits of b that start at bit `from` as a uint64: 8 bytes, most
\* significant first, for the fields too wide for the model's integers
FieldBytes(b, from, n) ==
    LET bits == [i \in 1..64 |-> IF i <= 64 - n THEN 0 ELSE BitAt(b, from + i - (64 - n) - 1)]
    IN [i \in 1..8 |-> 128 * bits[8 * i - 7] + 64 * bits[8 * i - 6]
                       + 32 * bits[8 * i - 5] + 16 * bits[8 * i - 4]
                       + 8 * bits[8 * i - 3] + 4 * bits[8 * i - 2]
                       + 2 * bits[8 * i - 1] + bits[8 * i]]

\* n as 4 bytes, most significant first
BE4(n) == [i \in 1..4 |-> (n \div (256 ^ (4 - i))) % 256]

RECURSIVE Sum(_)
Sum(ns) == IF ns = <<>> THEN 0 ELSE ns[1] + Sum(Tail(ns))

\* ------------------------------------------------------------ readers

IOErrors == {"EOF", "ErrUnexpectedEOF", "ErrNegativePosition"}
DomainErrors == {"UnknownFormat", "UnsupportedVersion", "InvalidStream"}

\* bytes.Reader.Read into a buffer of n bytes: at the end of the data io.EOF,
\* otherwise as many bytes as are left, at most n, and no error
Read(b, p, n) ==
    IF p >= Len(b) THEN [n |-> 0, err |-> "EOF", data |-> <<>>, pos |-> p]
    ELSE LET k == Min(n, Len(b) - p)
         IN [n |-> k, err |-> "nil", data |-> Slice(b, p, p + k), pos |-> p + k]

\* binary.Read of an n-byte integer (io.ReadFull): all n bytes or an error
ReadFull(b, p, n) ==
    IF p >= Len(b) THEN [err |-> "EOF", data |-> <<>>, pos |-> p]
    ELSE IF Len(b) - p < n
         THEN [err |-> "ErrUnexpectedEOF", data |-> <<>>, pos |-> Len(b)]
         ELSE [err |-> "nil", data |-> Slice(b, p, p + n), pos |-> p + n]

\* bytes.Reader.Seek: whence 1 is relative to the offset, 2 to the end; a
\* negative target is an error, a target past the end is not
Seek(b, p, offset, whence) ==
    LET abs == (IF whence = 1 THEN p ELSE Len(b)) + offset
    IN IF abs < 0 THEN [err |-> "ErrNegativePosition", pos |-> p]
       ELSE [err |-> "nil", pos |-> abs]

\* bit.Reader.ReadFields(widths...): the fields, most significant bit first,
\* out of ceil(sum(widths)/8) bytes read one at a time
ReadFields(b, p, widths) ==
    LET nbytes == (Sum(widths) + 7) \div 8
        r == ReadFull(b, p, nbytes)
        start(i) == Sum(SubSeq(widths, 1, i - 1))
        \* a field wider than 31 bits is a model integer by its low 31 bits
        \* only; `wide` has all of it
        low31(i) == Min(widths[i], 31)
    IN IF r.err # "nil"
       THEN [err |-> "EOF", fields |-> <<>>, wide |-> <<>>, pos |-> r.pos]
       ELSE [err |-> "nil",
             fields |-> [i \in 1..Len(widths) |->
                            BitField(r.data, start(i) + widths[i] - low31(i),
                                     low31(i))],
             wide |-> [i \in 1..Len(widths) |->
                          FieldBytes(r.data, start(i), widths[i])],
             pos |-> r.pos]

\* ------------------------------------------------------------ constants

flacMagicNumber == <<102, 76, 97, 67>>          \* "fLaC"
mp3MagicNumber == <<73, 68, 51>>                \* "ID3"
oggMagicNumber == <<79, 103, 103, 83>>          \* "OggS"

tagAlbum == <<65, 76, 66, 85, 77>>                                  \* "ALBUM"
tagAlbumArtist == <<65, 76, 66, 85, 77, 65, 82, 84, 73, 83, 84>>    \* "ALBUMARTIST"
tagArtist == <<65, 82, 84, 73, 83, 84>>                             \* "ARTIST"
tagComment == <<67, 79, 77, 77, 69, 78, 84>>                        \* "COMMENT"
tagDate == <<68, 65, 84, 69>>                                       \* "DATE"
tagDiscNumber == <<68, 73, 83, 67, 78, 85, 77, 66, 69, 82>>         \* "DISCNUMBER"
tagGenre == <<71, 69, 78, 82, 69>>                                  \* "GENRE"
tagPublisher == <<80, 85, 66, 76, 73, 83, 72, 69, 82>>              \* "PUBLISHER"
tagTitle == <<84, 73, 84, 76, 69>>                                  \* "TITLE"
tagTrackNumber == <<84, 82, 65, 67, 75, 78, 85, 77, 66, 69, 82>>    \* "TRACKNUMBER"

\* len(oggVorbisParser.buffer), made by newOGGVorbisParser
oggBufferLen == 128

NoMem == [buf |-> <<>>, pos |-> -1]

\* ------------------------------------------------------------ New

\* the state New leaves behind when it returns (nil, e)
Fail(e) ==
    /\ pc' = "done"
    /\ err' = e
    /\ parser' = "nil"

\* the parser constructor New delegates to, by the first byte of the stream
MagicOf(b0) ==
    IF b0 = flacMagicNumber[1] THEN flacMagicNumber
    ELSE IF b0 = mp3MagicNumber[1] THEN mp3MagicNumber
    ELSE IF b0 = oggMagicNumber[1] THEN oggMagicNumber
    ELSE <<>>

FormatOf(magic) ==
    IF magic = flacMagicNumber THEN "FLAC"
    ELSE IF magic = mp3MagicNumber THEN "MP3"
    ELSE "Ogg Vorbis"

FirstStepForFLAC(magic) == "parseProperties"

FirstStep(magic) ==
    IF magic = flacMagicNumber THEN "parseProperties"
    ELSE IF magic = mp3MagicNumber THEN "parseID3v2Header"
    ELSE "parseOGGVorbisIDHeader"

\* bytes.Equal(magicBuf[:len(magic)], magic)
MagicMatches(magicBuf, magic) == Slice(magicBuf, 0, Len(magic)) = magic

New ==
    /\ pc = "New"
    /\ LET first == Read(stream, pos, 1)
           magicBuf0 == Copy(Zeros(8), first.data)
           magic == MagicOf(magicBuf0[1])
           rest == Read(stream, first.pos, Len(magic) - 1)
           magicBuf == [i \in 1..8 |->
                           IF i >= 2 /\ i <= 1 + rest.n THEN rest.data[i - 1]
                           ELSE magicBuf0[i]]
       IN IF first.err # "nil"
          THEN /\ Fail(first.err)
               /\ pos' = first.pos
               /\ format' = format
          ELSE IF magic = <<>>
          THEN /\ Fail("UnknownFormat")
               /\ pos' = first.pos
               /\ format' = format
          ELSE IF rest.err # "nil"
          THEN /\ Fail(rest.err)
               /\ pos' = rest.pos
               /\ format' = format
          ELSE IF MagicMatches(magicBuf, magic)
          THEN /\ pc' = FirstStep(magic)
               /\ format' = FormatOf(magic)
               /\ pos' = rest.pos
               /\ UNCHANGED <<err, parser>>
          ELSE /\ Fail("UnknownFormat")
               /\ pos' = rest.pos
               /\ format' = format
    /\ buffer' = IF pc' = "parseOGGVorbisIDHeader" THEN Zeros(oggBufferLen)
                  ELSE buffer
    /\ low' = IF pc' = "done" THEN low ELSE pos'
    /\ UNCHANGED <<stream, build, earlier, mem, tags, encoder, tagMap, todo>>
    /\ UNCHANGED <<flacVars, mp3Vars, idHeader, duration>>

\* ------------------------------------------------------------ FLAC

flacStreamInfo == 0
flacVorbisComment == 4

\* the state New leaves behind when a slice or index expression is out of
\* range: the goroutine panics and New returns nothing
Panic ==
    /\ pc' = "done"
    /\ err' = "panic"
    /\ parser' = "nil"

\* the state New leaves behind when the constructor returns (parser, nil)
Succeed ==
    /\ pc' = "done"
    /\ err' = "nil"
    /\ parser' = format

\* FLACParser.parseMetadataHeader: ReadFields(1, 7, 24)
parseMetadataHeader(b, p) ==
    LET r == ReadFields(b, p, <<1, 7, 24>>)
    IN IF r.err # "nil"
       THEN [err |-> r.err, pos |-> r.pos,
             LastBlock |-> FALSE, BlockType |-> 0, BlockLength |-> 0]
       ELSE [err |-> "nil", pos |-> r.pos,
             LastBlock |-> (r.fields[1] = 1),
             BlockType |-> r.fields[2] % 256,
             BlockLength |-> r.fields[3]]

FirstBlockValidByType(header) == ~(header.BlockType # flacStreamInfo)

\* parseProperties: the first block must be STREAMINFO and not the last one
FirstBlockValid(header) ==
    ~(header.LastBlock \/ header.BlockType # flacStreamInfo)

\* the error parseProperties returns when the MD5 checksum cannot be read
ChecksumReadError(e) == "InvalidStream"

\* fmt.Sprintf("%x", checksum): two lowercase hex digits per byte
HexDigit(n) == IF n < 10 THEN 48 + n ELSE 87 + n
RECURSIVE Hex(_)
Hex(b) ==
    IF b = <<>> THEN <<>>
    ELSE <<HexDigit(b[1] \div 16), HexDigit(b[1] % 16)>> \o Hex(Tail(b))

StreamInfoBlockZeroBased(fields, wide, checksum) ==
    [MinBlockSize |-> fields[1] % 65536,
     MaxBlockSize |-> fields[2] % 65536,
     MinFrameSize |-> fields[3],
     MaxFrameSize |-> fields[4],
     SampleRate |-> fields[5] % 65536,
     ChannelCount |-> fields[6] % 256,
     BitsPerSample |-> fields[7] % 65536,
     SampleCount |-> wide[8],
     MD5Checksum |-> Hex(checksum)]

\* the flacStreamInfoBlock parseProperties stores: the conversions of the
\* ReadFields values to the widths of the struct's fields
StreamInfoBlock(fields, wide, checksum) ==
    [MinBlockSize |-> fields[1] % 65536,
     MaxBlockSize |-> fields[2] % 65536,
     MinFrameSize |-> fields[3],
     MaxFrameSize |-> fields[4],
     SampleRate |-> fields[5] % 65536,
     ChannelCount |-> ((fields[6] % 256) + 1) % 256,
     BitsPerSample |-> ((fields[7] % 65536) + 1) % 65536,
     SampleCount |-> wide[8],
     MD5Checksum |-> Hex(checksum)]

NoProperties == [SampleRate |-> 0]

\* FLACParser.parseProperties
parseProperties ==
    /\ pc = "parseProperties"
    /\ \E header \in {parseMetadataHeader(stream, pos)} :
       \E r \in {ReadFields(stream, header.pos, <<16, 16, 24, 24, 20, 3, 5, 36>>)} :
       LET sum == Read(stream, r.pos, 16)
           checksum == Copy(Zeros(16), sum.data)
       IN IF header.err # "nil"
          THEN Fail(header.err) /\ pos' = header.pos /\ UNCHANGED properties
          ELSE IF ~FirstBlockValid(header)
          THEN Fail("InvalidStream") /\ pos' = header.pos /\ UNCHANGED properties
          ELSE IF r.err # "nil"
          THEN Fail(r.err) /\ pos' = r.pos /\ UNCHANGED properties
          ELSE IF sum.err # "nil"
          THEN /\ Fail(ChecksumReadError(sum.err))
               /\ pos' = sum.pos
               /\ UNCHANGED properties
          ELSE /\ properties' = StreamInfoBlock(r.fields, r.wide, checksum)
               /\ pos' = sum.pos
               /\ pc' = "parseTags"
               /\ UNCHANGED <<err, parser>>
    /\ UNCHANGED <<stream, build, earlier, low, format, mem, tags, encoder, tagMap, todo>>
    /\ UNCHANGED <<mp3Vars, oggVars>>

BlockStepLastFirst(header) ==
    IF header.LastBlock THEN "last"
    ELSE IF header.BlockType = flacVorbisComment THEN "comment"
    ELSE "skip"

\* what the loop of parseTags does with a block header: the VORBISCOMMENT
\* check comes before the last-block check
BlockStep(header) ==
    IF header.BlockType = flacVorbisComment THEN "comment"
    ELSE IF header.LastBlock THEN "last"
    ELSE "skip"

\* FLACParser.parseTags, one turn of the loop over the metadata blocks, and,
\* once the VORBISCOMMENT block is met, the vendor string and comment count
parseTags ==
    /\ pc = "parseTags"
    /\ \E header \in {parseMetadataHeader(stream, pos)} :
       \E vlen \in {ReadFull(stream, header.pos, 4)} :
       LET skip == Read(stream, header.pos, header.BlockLength)
           vendorLength == LittleEndian(vlen.data)
           vendor == Read(stream, vlen.pos, vendorLength)
           vendorBuf == Copy(Zeros(vendorLength), vendor.data)
           clen == ReadFull(stream, vendor.pos, 4)
           commentLength == LittleEndian(clen.data)
       IN IF header.err # "nil"
          THEN Fail(header.err) /\ pos' = header.pos
               /\ UNCHANGED <<encoder, tagMap, todo, tags>>
          ELSE IF BlockStep(header) = "last"
          THEN Succeed /\ pos' = header.pos
               /\ UNCHANGED <<encoder, tagMap, todo, tags>>
          ELSE IF BlockStep(header) = "skip"
          THEN IF skip.err # "nil"
               THEN Fail(skip.err) /\ pos' = skip.pos
                    /\ UNCHANGED <<encoder, tagMap, todo, tags>>
               ELSE /\ pos' = skip.pos
                    /\ UNCHANGED <<pc, err, parser, encoder, tagMap, todo, tags>>
          ELSE IF vlen.err # "nil"
          THEN Fail(vlen.err) /\ pos' = vlen.pos
               /\ UNCHANGED <<encoder, tagMap, todo, tags>>
          ELSE IF vendor.err # "nil"
          THEN Fail(vendor.err) /\ pos' = vendor.pos
               /\ UNCHANGED <<encoder, tagMap, todo, tags>>
          ELSE IF clen.err # "nil"
          THEN Fail(clen.err) /\ pos' = clen.pos
               /\ encoder' = vendorBuf
               /\ UNCHANGED <<tagMap, todo, tags>>
          ELSE /\ pos' = clen.pos
               /\ encoder' = vendorBuf
               /\ tagMap' = EmptyMap
               /\ todo' = commentLength
               /\ IF commentLength = 0
                  THEN Succeed /\ tags' = EmptyMap
                  ELSE pc' = "parseTagsComment" /\ UNCHANGED <<err, parser, tags>>
    /\ UNCHANGED <<stream, build, earlier, low, format, mem>>
    /\ UNCHANGED <<flacVars, mp3Vars, oggVars>>

\* the pair a Vorbis comment is split into: strings.Split(text, "=")
CommentPair(text) == Split(text, 61)

\* the tagMap after tagMap[strings.ToUpper(pair[0])] = pair[1]
StoreComment(m, pair) == Store(m, ToUpper(pair[1]), pair[2])

\* FLACParser.parseTags, one turn of the loop over the comments
parseTagsComment ==
    /\ pc = "parseTagsComment"
    /\ \E tlen \in {ReadFull(stream, pos, 4)} :
       \E tagLength \in {LittleEndian(tlen.data)} :
       \E text \in {Read(stream, tlen.pos, tagLength)} :
       \E pair \in {IF tlen.err = "nil" /\ text.err = "nil"
                    THEN CommentPair(Copy(Zeros(tagLength), text.data))
                    ELSE <<>>} :
          IF tlen.err # "nil"
          THEN Fail(tlen.err) /\ pos' = tlen.pos /\ UNCHANGED <<tagMap, todo, tags>>
          ELSE IF text.err # "nil"
          THEN Fail(text.err) /\ pos' = text.pos /\ UNCHANGED <<tagMap, todo, tags>>
          ELSE IF Len(pair) < 2
          THEN Panic /\ pos' = text.pos /\ UNCHANGED <<tagMap, todo, tags>>
          ELSE /\ pos' = text.pos
               /\ tagMap' = StoreComment(tagMap, pair)
               /\ todo' = todo - 1
               /\ IF todo = 1
                  THEN Succeed /\ tags' = StoreComment(tagMap, pair)
                  ELSE UNCHANGED <<pc, err, parser, tags>>
    /\ UNCHANGED <<stream, build, earlier, low, format, mem, encoder>>
    /\ UNCHANGED <<flacVars, mp3Vars, oggVars>>

\* ------------------------------------------------------------ MP3

mp3TagEncoder == <<69, 78, 67, 79, 68, 69, 82>>    \* "ENCODER"
mp3TagLength == <<76, 69, 78, 71, 84, 72>>         \* "LENGTH"
mp3SamplesPerFrame == 1152
mp3APICFrame == <<65, 80, 73, 67>>                 \* "APIC"
mp3XingMarker == <<88, 105, 110, 103>>             \* "Xing"
mp3InfoMarker == <<73, 110, 102, 111>>             \* "Info"

\* len(tagBuf) in parseID3v2Frames and len(headerBuf), len(tempBuf) in
\* parseMP3Header
mp3TagBufLen == 2048
mp3HeaderBufLen == 4096
mp3TempBufLen == 64

\* the reader the parser reads from: the caller's stream until the parser
\* replaces it by a bytes.Reader over bytes it has already read
Rd == IF mem = NoMem THEN [buf |-> stream, pos |-> pos] ELSE mem
SetRdPos(p) ==
    IF mem = NoMem THEN pos' = p /\ mem' = mem
    ELSE mem' = [mem EXCEPT !.pos = p] /\ pos' = pos

\* parseID3v2Header: the ID3v2 major versions the parser handles
VersionSupported(major) == ~(major < 2 \/ major > 4)

\* parseID3v2Header: the footer flag is not allowed before ID3v2.4
FooterInvalid(header) == header.MajorVersion < 4 /\ header.Footer

HeaderErrorFooterFirst(header) ==
    IF FooterInvalid(header) THEN "InvalidStream"
    ELSE IF ~VersionSupported(header.MajorVersion) THEN "UnsupportedVersion"
    ELSE "nil"

\* the error parseID3v2Header returns for a header it read, "nil" if none:
\* the version check comes before the footer check
HeaderError(header) ==
    IF ~VersionSupported(header.MajorVersion) THEN "UnsupportedVersion"
    ELSE IF FooterInvalid(header) THEN "InvalidStream"
    ELSE "nil"

ID3v2Header(fields) ==
    [MajorVersion |-> fields[1] % 256,
     MinorVersion |-> fields[2] % 256,
     Unsynchronization |-> (fields[3] = 1),
     Extended |-> (fields[4] = 1),
     Experimental |-> (fields[5] = 1),
     Footer |-> (fields[6] = 1),
     Size |-> fields[8]]

\* len(frameBuf): 3 bytes for ID3v2.2, 4 bytes for ID3v2.3+
FrameTitleLen(major) == IF major = 2 THEN 3 ELSE 4

\* mp3Parser.parseID3v2Header
parseID3v2Header ==
    /\ pc = "parseID3v2Header"
    /\ \E r \in {ReadFields(stream, pos, <<8, 8, 1, 1, 1, 1, 4, 32>>)} :
       LET header == ID3v2Header(r.fields)
           size == ReadFull(stream, r.pos, 4)
           headerSize == BigEndian(size.data)
           skip == Seek(stream, size.pos, headerSize - 4, 1)
           start(p) ==
               /\ pos' = p
               /\ pc' = "parseID3v2Frames"
               /\ frameBuf' = Zeros(FrameTitleLen(header.MajorVersion))
               /\ tagBuf' = Zeros(mp3TagBufLen)
               /\ tagMap' = EmptyMap
               /\ UNCHANGED <<err, parser>>
       IN IF r.err # "nil"
          THEN Fail(r.err) /\ pos' = r.pos
               /\ UNCHANGED <<id3Header, frameBuf, tagBuf, tagMap>>
          ELSE /\ id3Header' = header
               /\ IF HeaderError(header) # "nil"
                  THEN Fail(HeaderError(header)) /\ pos' = r.pos
                       /\ UNCHANGED <<frameBuf, tagBuf, tagMap>>
                  ELSE IF ~header.Extended
                  THEN start(r.pos)
                  ELSE IF size.err # "nil"
                  THEN Fail(size.err) /\ pos' = size.pos
                       /\ UNCHANGED <<frameBuf, tagBuf, tagMap>>
                  ELSE IF skip.err # "nil"
                  THEN Fail(skip.err) /\ pos' = skip.pos
                       /\ UNCHANGED <<frameBuf, tagBuf, tagMap>>
                  ELSE start(skip.pos)
    /\ low' = IF pc' = "parseID3v2Frames" THEN Min(low, pos') ELSE low
    /\ UNCHANGED <<stream, build, earlier, format, mem, tags, encoder, todo>>
    /\ UNCHANGED <<mp3Header, xingHeader, headerBuf>>
    /\ UNCHANGED <<flacVars, oggVars>>

\* mp3ID3v2FrameToTag: frame title to tag name
FrameTagPairs ==
    { <<<<84, 65, 76>>, tagAlbum>>,              \* "TAL"
      <<<<84, 82, 75>>, tagTrackNumber>>,        \* "TRK"
      <<<<84, 80, 49>>, tagArtist>>,             \* "TP1"
      <<<<84, 80, 50>>, tagAlbumArtist>>,        \* "TP2"
      <<<<84, 84, 50>>, tagTitle>>,              \* "TT2"
      <<<<84, 89, 69>>, tagDate>>,               \* "TYE"
      <<<<84, 80, 65>>, tagDiscNumber>>,         \* "TPA"
      <<<<84, 67, 79>>, tagGenre>>,              \* "TCO"
      <<<<67, 79, 77, 77>>, tagComment>>,        \* "COMM"
      <<<<84, 65, 76, 66>>, tagAlbum>>,          \* "TALB"
      <<<<84, 67, 79, 78>>, tagGenre>>,          \* "TCON"
      <<<<84, 68, 82, 67>>, tagDate>>,           \* "TDRC"
      <<<<84, 73, 84, 50>>, tagTitle>>,          \* "TIT2"
      <<<<84, 76, 69, 78>>, mp3TagLength>>,      \* "TLEN"
      <<<<84, 80, 69, 49>>, tagArtist>>,         \* "TPE1"
      <<<<84, 80, 69, 50>>, tagAlbumArtist>>,    \* "TPE2"
      <<<<84, 80, 79, 83>>, tagDiscNumber>>,     \* "TPOS"
      <<<<84, 82, 67, 75>>, tagTrackNumber>>,    \* "TRCK"
      <<<<84, 83, 83, 69>>, mp3TagEncoder>>,     \* "TSSE"
      <<<<84, 89, 69, 82>>, tagDate>> }          \* "TYER"
mp3ID3v2FrameToTag ==
    [f \in {p[1] : p \in FrameTagPairs} |->
        (CHOOSE p \in FrameTagPairs : p[1] = f)[2]]

\* bytes.TrimSuffix and bytes.TrimPrefix
TrimSuffix(s, suffix) ==
    IF Len(s) >= Len(suffix) /\ Slice(s, Len(s) - Len(suffix), Len(s)) = suffix
    THEN Slice(s, 0, Len(s) - Len(suffix)) ELSE s
TrimPrefix(s, prefix) ==
    IF Len(s) >= Len(prefix) /\ Slice(s, 0, Len(prefix)) = prefix
    THEN Slice(s, Len(prefix), Len(s)) ELSE s

\* the tag text of a frame whose n payload bytes are in buf:
\* string(bytes.TrimPrefix(bytes.TrimSuffix(tagBuf[1:n], {0}), {255, 254}))
FrameText(buf, n) == TrimPrefix(TrimSuffix(Slice(buf, 1, n), <<0>>), <<255, 254>>)

\* parseID3v2Frames: the frames sought past without reading
FrameSkipped(title, frameLength) ==
    title = mp3APICFrame \/ frameLength > mp3TagBufLen

\* mp3Parser.parseID3v2Frames, one turn of the loop over the frames
parseID3v2Frames ==
    /\ pc = "parseID3v2Frames"
    /\ \E title \in {Read(stream, pos, Len(frameBuf))} :
       \E frame \in {Copy(frameBuf, title.data)},
          len3 \in {Read(stream, title.pos, 3)},
          len4 \in {ReadFull(stream, title.pos, 4)} :
       \E lenBuf \in {IF id3Header.MajorVersion = 2 THEN Copy(tagBuf, len3.data)
                      ELSE tagBuf} :
       \E frameLength \in {IF frame[1] \in {0, 255} THEN 0
                           ELSE IF id3Header.MajorVersion = 2
                           THEN BigEndian(Slice(lenBuf, 0, 3))
                           ELSE BigEndian(len4.data)} :
       \E data \in {Read(stream,
                         IF id3Header.MajorVersion = 2 THEN len3.pos
                         ELSE Seek(stream, len4.pos, 2, 1).pos,
                         frameLength)} :
       \E buf \in {Copy(lenBuf, data.data)} :
       LET v2 == id3Header.MajorVersion = 2
           more == Read(stream, title.pos, mp3TagBufLen)
           flags == Seek(stream, len4.pos, 2, 1)
           lenErr == IF v2 THEN len3.err ELSE len4.err
           dataPos == IF v2 THEN len3.pos ELSE flags.pos
           skip == Seek(stream, dataPos, frameLength, 1)
           break ==
               /\ tags' = tagMap
               /\ pc' = "parseMP3Header"
               /\ headerBuf' = [data |-> Zeros(mp3HeaderBufLen), grown |-> FALSE]
               /\ UNCHANGED <<err, parser, tagMap>>
           failed(e, p, tb) ==
               /\ Fail(e)
               /\ pos' = p
               /\ tagBuf' = tb
               /\ UNCHANGED <<mem, tags, tagMap, headerBuf>>
       IN IF title.err # "nil"
          THEN failed(title.err, title.pos, tagBuf) /\ UNCHANGED frameBuf
          ELSE /\ frameBuf' = frame
               /\ IF frame[1] = 0
                  THEN break /\ pos' = title.pos /\ UNCHANGED <<mem, tagBuf>>
                  ELSE IF frame[1] = 255
                  THEN IF more.err # "nil"
                       THEN failed(more.err, more.pos, tagBuf)
                       ELSE /\ break
                            /\ pos' = more.pos
                            /\ \E filled \in {Copy(tagBuf, more.data)} :
                                 /\ tagBuf' = filled
                                 /\ mem' = [buf |-> frame \o filled, pos |-> 0]
                  ELSE IF lenErr # "nil"
                  THEN failed(lenErr, IF v2 THEN len3.pos ELSE len4.pos, tagBuf)
                  ELSE IF FrameSkipped(frame, frameLength)
                  THEN IF skip.err # "nil"
                       THEN failed(skip.err, skip.pos, lenBuf)
                       ELSE /\ pos' = skip.pos
                            /\ tagBuf' = lenBuf
                            /\ UNCHANGED <<pc, err, parser, mem, tags, tagMap,
                                           headerBuf>>
                  ELSE IF data.err # "nil"
                  THEN failed(data.err, data.pos, lenBuf)
                  ELSE IF data.n < 1
                  THEN /\ Panic
                       /\ pos' = data.pos
                       /\ tagBuf' = buf
                       /\ UNCHANGED <<mem, tags, tagMap, headerBuf>>
                  ELSE /\ pos' = data.pos
                       /\ tagBuf' = buf
                       /\ tagMap' = Store(tagMap,
                                          Lookup(mp3ID3v2FrameToTag, frame, <<>>),
                                          FrameText(buf, data.n))
                       /\ UNCHANGED <<pc, err, parser, mem, tags, headerBuf>>
    /\ UNCHANGED <<stream, build, earlier, low, format, encoder, todo>>
    /\ UNCHANGED <<id3Header, mp3Header, xingHeader>>
    /\ UNCHANGED <<flacVars, oggVars>>

\* mp3Parser.parseMP3Header, one turn of the loop that looks for byte 255
parseMP3Header ==
    /\ pc = "parseMP3Header"
    /\ \E r \in {Read(Rd.buf, Rd.pos, Len(headerBuf.data))} :
       \E buf \in {Copy(headerBuf.data, r.data)} :
       \E index \in {Index(buf, <<255>>)} :
       LET temp == Read(Rd.buf, r.pos, mp3TempBufLen)
           tempBuf == Copy(Zeros(mp3TempBufLen), temp.data)
       IN IF r.err # "nil"
          THEN Fail(r.err) /\ SetRdPos(r.pos) /\ UNCHANGED headerBuf
          ELSE IF buf[1] = 255
          THEN /\ pc' = "parseMP3HeaderFields"
               /\ headerBuf' = [data |-> buf, grown |-> FALSE]
               /\ SetRdPos(r.pos)
               /\ UNCHANGED <<err, parser>>
          ELSE IF index # -1
          THEN IF temp.err # "nil"
               THEN Fail(temp.err) /\ SetRdPos(temp.pos) /\ UNCHANGED headerBuf
               ELSE /\ pc' = "parseMP3HeaderFields"
                    /\ headerBuf' = [data |-> Slice(buf, index, Len(buf)) \o tempBuf,
                                     grown |-> TRUE]
                    /\ SetRdPos(temp.pos)
                    /\ UNCHANGED <<err, parser>>
          ELSE /\ headerBuf' = [data |-> buf, grown |-> FALSE]
               /\ SetRdPos(r.pos)
               /\ UNCHANGED <<pc, err, parser>>
    /\ UNCHANGED <<stream, build, earlier, low, format, tags, encoder, tagMap, todo>>
    /\ UNCHANGED <<id3Header, mp3Header, xingHeader, tagBuf, frameBuf>>
    /\ UNCHANGED <<flacVars, oggVars>>

\* ------------------------------------------------------------ Ogg Vorbis

oggVorbisVorbisWord == <<118, 111, 114, 98, 105, 115>>     \* "vorbis"

\* how far before the end of the stream parseOGGVorbisDuration starts to look
\* for the last page
oggTailLen == 4096

PageHeaderResult(e, p, buf, granule) ==
    [err |-> e, pos |-> p, buffer |-> buf, GranulePosition |-> granule]

PageVersionAny(version) == TRUE
\* the page header check of parseOGGVorbisPageHeader: the stream structure
\* version must be 0
PageVersionValid(version) == version = 0

\* oggVorbisParser.parseOGGVorbisPageHeader(skipMagicNumber) on the reader
\* (b, p) with the parser's buffer buf
parseOGGVorbisPageHeader(b, p, buf, skipMagicNumber) ==
    LET magic == Read(b, p, 4)
        buf1 == IF skipMagicNumber THEN buf ELSE Copy(buf, magic.data)
        p1 == IF skipMagicNumber THEN p ELSE magic.pos
        \* each field is read where the fields before it, all read in full,
        \* have left the reader
        version == ReadFull(b, p1, 1)
        type == ReadFull(b, p1 + 1, 1)
        granule == ReadFull(b, p1 + 2, 8)
        serial == ReadFull(b, p1 + 10, 4)
        sequence == ReadFull(b, p1 + 14, 4)
        checksum == Read(b, p1 + 18, 4)
        buf2 == Copy(buf1, checksum.data)
        segments == ReadFull(b, checksum.pos, 1)
        seek == Seek(b, segments.pos, segments.data[1], 1)
    IN IF ~skipMagicNumber /\ magic.err # "nil"
       THEN PageHeaderResult(magic.err, magic.pos, buf, 0)
       ELSE IF ~skipMagicNumber /\ Slice(buf1, 0, 4) # oggMagicNumber
       THEN PageHeaderResult("InvalidStream", p1, buf1, 0)
       ELSE IF version.err # "nil"
       THEN PageHeaderResult(version.err, version.pos, buf1, 0)
       ELSE IF ~PageVersionValid(version.data[1])
       THEN PageHeaderResult("InvalidStream", version.pos, buf1, 0)
       ELSE IF type.err # "nil"
       THEN PageHeaderResult(type.err, type.pos, buf1, 0)
       ELSE IF granule.err # "nil"
       THEN PageHeaderResult(granule.err, granule.pos, buf1, 0)
       ELSE IF serial.err # "nil"
       THEN PageHeaderResult(serial.err, serial.pos, buf1, 0)
       ELSE IF sequence.err # "nil"
       THEN PageHeaderResult(sequence.err, sequence.pos, buf1, 0)
       ELSE IF checksum.err # "nil"
       THEN PageHeaderResult(checksum.err, checksum.pos, buf1, 0)
       ELSE IF segments.err # "nil"
       THEN PageHeaderResult(segments.err, segments.pos, buf2, 0)
       ELSE IF seek.err # "nil"
       THEN PageHeaderResult(seek.err, seek.pos, buf2, 0)
       ELSE PageHeaderResult("nil", seek.pos, buf2, LittleEndian(granule.data))

\* oggVorbisParser.parseOGGVorbisCommonHeader: the packet type byte, kept at
\* the end of the buffer, and the "vorbis" word
parseOGGVorbisCommonHeader(b, p, buf) ==
    LET type == Read(b, p, 1)
        buf1 == [Copy(buf, type.data) EXCEPT ![oggBufferLen] = type.data[1]]
        word == Read(b, type.pos, Len(oggVorbisVorbisWord))
        buf2 == Copy(buf1, word.data)
    IN IF type.err # "nil"
       THEN [err |-> type.err, pos |-> type.pos, buffer |-> buf, headerType |-> 0]
       ELSE IF word.err # "nil"
       THEN [err |-> word.err, pos |-> word.pos, buffer |-> buf1, headerType |-> 0]
       ELSE IF Slice(buf2, 0, Len(oggVorbisVorbisWord)) # oggVorbisVorbisWord
       THEN [err |-> "InvalidStream", pos |-> word.pos, buffer |-> buf2,
             headerType |-> 0]
       ELSE [err |-> "nil", pos |-> word.pos, buffer |-> buf2,
             headerType |-> buf2[oggBufferLen]]

\* the oggVorbisIDHeader parseOGGVorbisIDHeader stores
OggIDHeader(version, channels, rates, fields) ==
    [VorbisVersion |-> version,
     ChannelCount |-> channels,
     SampleRate |-> rates[1],
     MaxBitrate |-> rates[2],
     NomBitrate |-> rates[3],
     MinBitrate |-> rates[4],
     Blocksize0 |-> fields[1] % 256,
     Blocksize1 |-> fields[2] % 256,
     Framing |-> (fields[3] = 1)]

\* oggVorbisParser.parseOGGVorbisIDHeader
parseOGGVorbisIDHeader ==
    /\ pc = "parseOGGVorbisIDHeader"
    /\ \E page \in {parseOGGVorbisPageHeader(stream, pos, buffer, TRUE)} :
       \E common \in {parseOGGVorbisCommonHeader(stream, page.pos, page.buffer)} :
       LET version == ReadFull(stream, common.pos, 4)
           channels == ReadFull(stream, common.pos + 4, 1)
           rate(i) == ReadFull(stream, common.pos + 5 + 4 * (i - 1), 4)
           bad == {i \in 1..4 : rate(i).err # "nil"}
           firstBad == CHOOSE i \in bad : \A j \in bad : i <= j
           fields == ReadFields(stream, common.pos + 21, <<4, 4, 1>>)
           failed(e, p, buf) ==
               /\ Fail(e)
               /\ pos' = p
               /\ buffer' = buf
               /\ UNCHANGED idHeader
       IN IF page.err # "nil" THEN failed(page.err, page.pos, page.buffer)
          ELSE IF common.err # "nil"
          THEN failed(common.err, common.pos, common.buffer)
          ELSE IF common.headerType # 1
          THEN failed("InvalidStream", common.pos, common.buffer)
          ELSE IF version.err # "nil"
          THEN failed(version.err, version.pos, common.buffer)
          ELSE IF LittleEndian(version.data) # 0
          THEN failed("InvalidStream", version.pos, common.buffer)
          ELSE IF channels.err # "nil"
          THEN failed(channels.err, channels.pos, common.buffer)
          ELSE IF bad # {}
          THEN failed(rate(firstBad).err, rate(firstBad).pos, common.buffer)
          ELSE IF fields.err # "nil"
          THEN failed(fields.err, fields.pos, common.buffer)
          ELSE /\ idHeader' = OggIDHeader(LittleEndian(version.data),
                                          channels.data[1],
                                          [i \in 1..4 |-> LittleEndian(rate(i).data)],
                                          fields.fields)
               /\ pos' = fields.pos
               /\ buffer' = common.buffer
               /\ pc' = "parseOGGVorbisCommentHeader"
               /\ UNCHANGED <<err, parser>>
    /\ UNCHANGED <<stream, build, earlier, low, format, mem, tags, encoder, tagMap, todo, duration>>
    /\ UNCHANGED <<flacVars, mp3Vars>>

OggStoreCommentAsIs(m, pair) == Store(m, pair[1], pair[2])

\* the tagMap after tagMap[strings.ToUpper(pair[0])] = pair[1] in
\* parseOGGVorbisCommentHeader
OggStoreComment(m, pair) == Store(m, ToUpper(pair[1]), pair[2])

\* parseOGGVorbisCommentHeader, after the comments: Seek(1, 1) over the
\* framing bit, then the tags are stored
OggCommentsDone(p, m) ==
    LET seek == Seek(stream, p, 1, 1)
    IN IF seek.err # "nil"
       THEN Fail(seek.err) /\ pos' = seek.pos /\ UNCHANGED tags
       ELSE /\ pos' = seek.pos
            /\ tags' = m
            /\ pc' = "parseOGGVorbisDuration"
            /\ UNCHANGED <<err, parser>>

\* oggVorbisParser.parseOGGVorbisCommentHeader up to the comment count
parseOGGVorbisCommentHeader ==
    /\ pc = "parseOGGVorbisCommentHeader"
    /\ \E page \in {parseOGGVorbisPageHeader(stream, pos, buffer, FALSE)} :
       \E common \in {parseOGGVorbisCommonHeader(stream, page.pos, page.buffer)} :
       \E vlen \in {ReadFull(stream, common.pos, 4)} :
       \E vendorLength \in {LittleEndian(vlen.data)} :
       \E vendor \in {Read(stream, common.pos + 4, vendorLength)} :
       LET buf == Copy(common.buffer, vendor.data)
           clen == ReadFull(stream, vendor.pos, 4)
           commentLength == LittleEndian(clen.data)
           failed(e, p, bf) ==
               /\ Fail(e)
               /\ pos' = p
               /\ buffer' = bf
               /\ UNCHANGED <<tags, tagMap, todo>>
       IN IF page.err # "nil"
          THEN failed(page.err, page.pos, page.buffer) /\ UNCHANGED encoder
          ELSE IF common.err # "nil"
          THEN failed(common.err, common.pos, common.buffer) /\ UNCHANGED encoder
          ELSE IF common.headerType # 3
          THEN failed("InvalidStream", common.pos, common.buffer)
               /\ UNCHANGED encoder
          ELSE IF vlen.err # "nil"
          THEN failed(vlen.err, vlen.pos, common.buffer) /\ UNCHANGED encoder
          ELSE IF vendorLength > oggBufferLen
          THEN /\ Panic
               /\ pos' = vlen.pos
               /\ buffer' = common.buffer
               /\ UNCHANGED <<tags, tagMap, todo, encoder>>
          ELSE IF vendor.err # "nil"
          THEN failed(vendor.err, vendor.pos, common.buffer) /\ UNCHANGED encoder
          ELSE /\ encoder' = Slice(buf, 0, vendorLength)
               /\ IF clen.err # "nil"
                  THEN failed(clen.err, clen.pos, buf)
                  ELSE /\ buffer' = buf
                       /\ tagMap' = EmptyMap
                       /\ todo' = commentLength
                       /\ IF commentLength = 0
                          THEN OggCommentsDone(clen.pos, EmptyMap)
                          ELSE /\ pos' = clen.pos
                               /\ pc' = "parseOGGVorbisComment"
                               /\ UNCHANGED <<err, parser, tags>>
    /\ UNCHANGED <<stream, build, earlier, low, format, mem, idHeader, duration>>
    /\ UNCHANGED <<flacVars, mp3Vars>>

\* parseOGGVorbisCommentHeader, one turn of the loop over the comments and,
\* after the last one, the end of the function
parseOGGVorbisComment ==
    /\ pc = "parseOGGVorbisComment"
    /\ \E tlen \in {ReadFull(stream, pos, 4)} :
       \E tagLength \in {LittleEndian(tlen.data)} :
       \E text \in {Read(stream, tlen.pos, tagLength)} :
       \E buf \in {IF tlen.err = "nil" /\ tagLength <= oggBufferLen
                   THEN Copy(buffer, text.data)
                   ELSE buffer} :
       \E pair \in {IF tlen.err = "nil" /\ tagLength <= oggBufferLen
                       /\ text.err = "nil"
                    THEN CommentPair(Slice(buf, 0, text.n))
                    ELSE <<>>} :
          IF tlen.err # "nil"
          THEN Fail(tlen.err) /\ pos' = tlen.pos
               /\ UNCHANGED <<buffer, tagMap, todo, tags>>
          ELSE IF tagLength > oggBufferLen
          THEN Panic /\ pos' = tlen.pos
               /\ UNCHANGED <<buffer, tagMap, todo, tags>>
          ELSE IF text.err # "nil"
          THEN Fail(text.err) /\ pos' = text.pos
               /\ UNCHANGED <<buffer, tagMap, todo, tags>>
          ELSE /\ buffer' = buf
               /\ IF Len(pair) < 2
                  THEN Panic /\ pos' = text.pos
                       /\ UNCHANGED <<tagMap, todo, tags>>
                  ELSE /\ tagMap' = OggStoreComment(tagMap, pair)
                       /\ todo' = todo - 1
                       /\ IF todo = 1
                          THEN OggCommentsDone(text.pos,
                                               OggStoreComment(tagMap, pair))
                          ELSE /\ pos' = text.pos
                               /\ UNCHANGED <<pc, err, parser, tags>>
    /\ UNCHANGED <<stream, build, earlier, low, format, mem, encoder, idHeader, duration>>
    /\ UNCHANGED <<flacVars, mp3Vars>>

\* what parseOGGVorbisDuration returns when the last page header does not
\* parse with error e
LastPageError(e) == "nil"

\* oggVorbisParser.parseOGGVorbisDuration
parseOGGVorbisDuration ==
    /\ pc = "parseOGGVorbisDuration"
    /\ \E seek \in {Seek(stream, pos, 0 - oggTailLen, 2)} :
       \E vorbisFile \in {Slice(stream, seek.pos, Len(stream))} :
       \E index \in {LastIndex(vorbisFile, oggMagicNumber)} :
       \E last \in {IF index = -1 THEN <<>>
                    ELSE Slice(vorbisFile, index, Len(vorbisFile))} :
       \E page \in {parseOGGVorbisPageHeader(last, 0, buffer, FALSE)} :
       LET end == IF seek.pos > Len(stream) THEN seek.pos ELSE Len(stream)
       IN IF seek.err # "nil"
          THEN /\ Fail(seek.err)
               /\ UNCHANGED <<pos, low, mem, buffer, duration>>
          ELSE /\ pos' = end
               /\ low' = Min(low, seek.pos)
               /\ IF index = -1
                  THEN /\ Fail("InvalidStream")
                       /\ UNCHANGED <<mem, buffer, duration>>
                  ELSE /\ mem' = [buf |-> last, pos |-> page.pos]
                       /\ buffer' = page.buffer
                       /\ IF page.err # "nil"
                          THEN /\ IF LastPageError(page.err) = "nil"
                                  THEN Succeed
                                  ELSE Fail(LastPageError(page.err))
                               /\ UNCHANGED duration
                          ELSE IF idHeader.SampleRate = 0
                          THEN Panic /\ UNCHANGED duration
                          ELSE /\ duration' = page.GranulePosition
                                                \div idHeader.SampleRate
                               /\ Succeed
    /\ UNCHANGED <<stream, build, earlier, format, tags, encoder, tagMap, todo, idHeader>>
    /\ UNCHANGED <<flacVars, mp3Vars>>

\* ------------------------------------------------------------ float64

\* A finite non-negative float64 is [bits, exp]: 53 bits, most significant
\* first and leading bit 1, standing for the integer they spell times 2^exp;
\* zero has no bits.  Arithmetic rounds to nearest, ties to even, as the
\* hardware does for the float64 expressions of parseMP3Header.  Integers
\* wider than the model's are kept as big-endian byte sequences.
floatMantissaBits == 53
FloatZero == [bits |-> <<>>, exp |-> 0]

RECURSIVE ToBits(_)
ToBits(n) == IF n = 0 THEN <<>> ELSE Append(ToBits(n \div 2), n % 2)
RECURSIVE FromBits(_)
FromBits(bs) ==
    IF bs = <<>> THEN 0 ELSE 2 * FromBits(Slice(bs, 0, Len(bs) - 1)) + bs[Len(bs)]

\* the bits of a byte sequence, and the bytes of a bit sequence (padded with
\* zero bits in front to whole bytes)
BitsOf(b) == [i \in 1..(8 * Len(b)) |-> BitAt(b, i - 1)]
BytesOf(bs) ==
    LET n == (Len(bs) + 7) \div 8
        padded == Zeros(8 * n - Len(bs)) \o bs
    IN [i \in 1..n |-> FromBits(Slice(padded, 8 * (i - 1), 8 * i))]

StripZeros(bs) ==
    LET ones == {i \in 1..Len(bs) : bs[i] = 1}
    IN IF ones = {} THEN <<>>
       ELSE Slice(bs, (CHOOSE i \in ones : \A j \in ones : i <= j) - 1, Len(bs))

\* bs + 1 for a bit sequence that is not all ones
IncBits(bs) ==
    LET zeros == {i \in 1..Len(bs) : bs[i] = 0}
        last == CHOOSE i \in zeros : \A j \in zeros : i >= j
    IN [i \in 1..Len(bs) |->
           IF i < last THEN bs[i] ELSE IF i = last THEN 1 ELSE 0]

\* the float64 nearest to bits * 2^exp (+ a non-zero rest below 2^exp when
\* sticky), for bits with leading 1
RoundBits(bs, exp, sticky) ==
    LET m == floatMantissaBits
    IN IF bs = <<>> THEN FloatZero
       ELSE IF Len(bs) <= m
       THEN [bits |-> bs \o Zeros(m - Len(bs)), exp |-> exp - (m - Len(bs))]
       ELSE LET keep == Slice(bs, 0, m)
                rest == sticky \/ \E i \in (m + 2)..Len(bs) : bs[i] = 1
                up == bs[m + 1] = 1 /\ (rest \/ keep[m] = 1)
                e == exp + Len(bs) - m
            IN IF ~up THEN [bits |-> keep, exp |-> e]
               ELSE IF \A i \in 1..m : keep[i] = 1
               THEN [bits |-> <<1>> \o Zeros(m - 1), exp |-> e + 1]
               ELSE [bits |-> IncBits(keep), exp |-> e]

RoundFloat(bits, exp, sticky) ==
    CHOOSE f \in {RoundBits(bs, exp, sticky) : bs \in {bits}} : TRUE

\* float64(n) of an integer given by its bits
FloatOfBits(bs) == RoundFloat(StripZeros(bs), 0, FALSE)

\* long division of the bytes `num` by k > 0 with remainder r so far: the
\* quotient's bytes and the final remainder
RECURSIVE DivBytes(_, _, _)
DivBytes(num, k, r) ==
    IF num = <<>> THEN [q |-> <<>>, r |-> r]
    ELSE LET r2 == 256 * r + num[1]
         IN CHOOSE d \in {[q |-> <<r2 \div k>> \o rest.q, r |-> rest.r] :
                             rest \in {DivBytes(Tail(num), k, r2 % k)}} : TRUE

\* bytes the quotient of a division is carried on below the binary point
floatGuardBytes == 9

\* x / float64(k) for an integer k > 0
FloatDiv(x, k) ==
    LET d == DivBytes(BytesOf(x.bits) \o Zeros(floatGuardBytes), k, 0)
    IN RoundFloat(StripZeros(BitsOf(d.q)), x.exp - 8 * floatGuardBytes, d.r # 0)

\* the bytes of num * k + carry
RECURSIVE MulBytes(_, _, _)
MulBytes(num, k, carry) ==
    IF num = <<>> THEN BE4(carry)
    ELSE LET t == num[Len(num)] * k + carry
         IN Append(MulBytes(Slice(num, 0, Len(num) - 1), k, t \div 256), t % 256)

\* x * float64(k) for an integer k >= 0
FloatMul(x, k) ==
    RoundFloat(StripZeros(BitsOf(MulBytes(BytesOf(x.bits), k, 0))), x.exp, FALSE)

\* int(x): the integer part
FloatTrunc(x) ==
    IF x.bits = <<>> THEN 0
    ELSE IF x.exp >= 0 THEN FromBits(x.bits) * (2 ^ x.exp)
    ELSE IF Len(x.bits) + x.exp <= 0 THEN 0
    ELSE FromBits(Slice(x.bits, 0, Len(x.bits) + x.exp))

\* mp3BitrateMap, mp3SampleRateMap and mp3ChannelModeMap
mp3BitrateMap ==
    [i \in 0..14 |-> <<0, 32, 40, 48, 56, 64, 80, 96, 112, 128, 160, 192, 224,
                       256, 320>>[i + 1]]
mp3SampleRateMap == [i \in 0..2 |-> <<44100, 48000, 32000>>[i + 1]]
mp3ChannelModeMap == [i \in {0, 1, 3, 4} |-> IF i = 4 THEN 1 ELSE 2]

\* the mp3Header parseMP3Header stores
MP3Header(fields) ==
    [MPEGVersionID |-> fields[2] % 256,
     MPEGLayerID |-> fields[3] % 256,
     Protected |-> (fields[4] = 0),
     Bitrate |-> fields[5] % 65536,
     SampleRate |-> fields[6] % 65536,
     Padding |-> (fields[7] = 1),
     Private |-> (fields[8] = 1),
     ChannelMode |-> fields[9] % 256,
     ModeExtension |-> fields[10] % 256,
     Copyright |-> (fields[11] = 1),
     Original |-> (fields[12] = 1),
     Emphasis |-> fields[13] % 256]

MPEGSupportedByVersion(header) == ~(header.MPEGVersionID # 3)

\* parseMP3Header: only MPEG version 1 (ID 3), layer 3 (ID 1) is parsed
MPEGSupported(header) == ~(header.MPEGVersionID # 3) /\ ~(header.MPEGLayerID # 1)

\* the index parseMP3Header finds the Xing header at: "Xing" first, "Info"
\* only when there is no "Xing"; -1 when there is neither
XingIndex(buf) ==
    IF Index(buf, mp3XingMarker) # -1 THEN Index(buf, mp3XingMarker)
    ELSE Index(buf, mp3InfoMarker)

\* the values an int() conversion of +Inf or NaN can produce, by platform:
\* the smallest and the largest int, written here by the 32-bit ones, and 0
IntOfNonFinite == {-2147483647, 0, 2147483647}

\* What the language leaves to the build of the program: the int() of +Inf,
\* the int() of NaN, and whether append leaves spare capacity behind the
\* appended bytes.  One build decides each in one way, so an outcome once
\* seen is the only one left.
AnyBuild == [inf |-> IntOfNonFinite, nan |-> IntOfNonFinite, spare |-> BOOLEAN]
DecideAnew(b, kind, v) == b
Decide(b, kind, v) == [b EXCEPT ![kind] = {v}]
Decided(b, kind) == {[val |-> v, build |-> Decide(b, kind, v)] : v \in b[kind]}

\* xingHeader.Duration:
\* int((float64(mp3SamplesPerFrame) / float64(SampleRate())) * float64(FrameCount))
\* Dividing by the sample rate 0 gives +Inf, and +Inf times 0 is NaN.
XingDurations(b, sampleRate, frameCount) ==
    IF sampleRate = 0
    THEN Decided(b, IF frameCount = 0 THEN "nan" ELSE "inf")
    ELSE {[val |-> FloatTrunc(seconds), build |-> b] :
             seconds \in {FloatMul(perFrame, frameCount) :
                 perFrame \in {FloatDiv(FloatOfBits(ToBits(mp3SamplesPerFrame)),
                                        sampleRate)}}}

\* xingHeader.Bitrate before the cap:
\* int(float64(StreamSize*8) / float64(Duration) / 1000), StreamSize*8 in uint32
\* Dividing by the duration 0 gives +Inf, or NaN when the dividend is 0.
XingBitrates(b, streamSize, dur) ==
    LET size8 == FloatOfBits(ToBits(streamSize % 536870912) \o <<0, 0, 0>>)
    IN IF dur = 0
       THEN Decided(b, IF streamSize % 536870912 = 0 THEN "nan" ELSE "inf")
       ELSE IF dur < 0 \/ dur = 2147483647 THEN {[val |-> 0, build |-> b]}
       ELSE {[val |-> FloatTrunc(kbps), build |-> b] :
                kbps \in {FloatDiv(bps, 1000) : bps \in {FloatDiv(size8, dur)}}}

CapBitrateNever(b) == b
\* the cap of the bitrate at 320
CapBitrate(b) == IF b > 320 THEN 320 ELSE b

\* mp3Parser.SampleRate()
MP3SampleRate(header) == Lookup(mp3SampleRateMap, header.SampleRate, 0)

\* mp3Parser.parseMP3Header, after the loop: the frame header fields, the
\* version check and the Xing header
parseMP3HeaderFields ==
    /\ pc = "parseMP3HeaderFields"
    /\ \E index \in {XingIndex(headerBuf.data)} :
       \E buf \in {headerBuf.data} :
       \E r \in {ReadFields(buf, 0, <<11, 2, 2, 1, 4, 2, 1, 1, 2, 2, 1, 1, 2>>)} :
       \E header \in {IF r.err = "nil" THEN MP3Header(r.fields) ELSE mp3Header} :
       \E from \in {index + Len(mp3XingMarker) + 4} :
       \E left \in {Len(buf) - from} :
       \* headerBuf[from:] read up to 8 bytes in: past its length the
       \* bytes are the zeroed spare capacity of the appended buffer
       \E xing \in {IF index # -1 /\ left >= 0
                    THEN Slice(buf, from, Min(Len(buf), from + 8))
                         \o Zeros(IF left < 8 THEN 8 - left ELSE 0)
                    ELSE <<>>} :
       LET store(b0) ==
               \E frameCount \in {BigEndian(Slice(xing, 0, 4))},
                  streamSize \in {BigEndian(Slice(xing, 4, 8))},
                  sampleRate \in {MP3SampleRate(header)} :
                 \E d \in XingDurations(b0, sampleRate, frameCount) :
                   \E b \in XingBitrates(d.build, streamSize, d.val) :
                     /\ xingHeader' = <<[FrameCount |-> frameCount,
                                         StreamSize |-> streamSize,
                                         Duration |-> d.val,
                                         Bitrate |-> CapBitrate(b.val)]>>
                     /\ build' = b.build
                     /\ Succeed
       IN IF r.err # "nil"
          THEN Fail(r.err) /\ UNCHANGED <<mp3Header, xingHeader, build>>
          ELSE /\ mp3Header' = header
               /\ IF ~MPEGSupported(header)
                  THEN Fail("UnsupportedVersion") /\ UNCHANGED <<xingHeader, build>>
                  ELSE IF index = -1
                  THEN Succeed /\ UNCHANGED <<xingHeader, build>>
                  ELSE IF left < 0
                  THEN Panic /\ UNCHANGED <<xingHeader, build>>
                  ELSE IF left >= 8
                  THEN store(build)
                  ELSE IF ~headerBuf.grown
                  THEN Panic /\ UNCHANGED <<xingHeader, build>>
                  ELSE \E spare \in Decided(build, "spare") :
                         IF spare.val THEN store(spare.build)
                         ELSE /\ Panic
                              /\ build' = spare.build
                              /\ UNCHANGED xingHeader
    /\ UNCHANGED <<stream, earlier, low, pos, format, mem, tags, encoder, tagMap, todo>>
    /\ UNCHANGED <<id3Header, frameBuf, tagBuf, headerBuf>>
    /\ UNCHANGED <<flacVars, oggVars>>

\* ------------------------------------------------------------ accessors

\* Format() of the parser New returned
Format == parser

\* Tag(name): FLACParser uppercases the name, mp3Parser and oggVorbisParser
\* look it up as it is
FLACTag(name) == Lookup(tags, ToUpper(name), <<>>)
MP3Tag(name) == Lookup(tags, name, <<>>)
OggTag(name) == Lookup(tags, name, <<>>)
Tag(name) ==
    IF parser = "FLAC" THEN FLACTag(name)
    ELSE IF parser = "MP3" THEN MP3Tag(name)
    ELSE OggTag(name)

\* the named string accessors, the same in the three parsers: tags[tagX]
Album == Lookup(tags, tagAlbum, <<>>)
AlbumArtist == Lookup(tags, tagAlbumArtist, <<>>)
Artist == Lookup(tags, tagArtist, <<>>)
Comment == Lookup(tags, tagComment, <<>>)
Date == Lookup(tags, tagDate, <<>>)
Genre == Lookup(tags, tagGenre, <<>>)
Title == Lookup(tags, tagTitle, <<>>)

\* the int a numeric accessor returns for the text it hands to strconv.Atoi
AtoiOrZero(text) == IF Atoi(text).ok THEN Atoi(text).val ELSE 0

\* the text in front of the first "/": strings.Split(text, "/")[0]
BeforeSlash(text) == Split(text, 47)[1]

\* TrackNumber(): mp3Parser and oggVorbisParser parse the text in front of a
\* "/", FLACParser the whole tag
FLACTrackNumber == AtoiOrZero(Lookup(tags, tagTrackNumber, <<>>))
MP3TrackNumber == AtoiOrZero(BeforeSlash(Lookup(tags, tagTrackNumber, <<>>)))
OggTrackNumber == AtoiOrZero(BeforeSlash(Lookup(tags, tagTrackNumber, <<>>)))
TrackNumber ==
    IF parser = "FLAC" THEN FLACTrackNumber
    ELSE IF parser = "MP3" THEN MP3TrackNumber
    ELSE OggTrackNumber

\* DiscNumber(): FLACParser's is not part of the source at hand
FLACDiscNumber == AtoiOrZero(Lookup(tags, tagDiscNumber, <<>>))
MP3DiscNumber == AtoiOrZero(Lookup(tags, tagDiscNumber, <<>>))
OggDiscNumber == AtoiOrZero(Lookup(tags, tagDiscNumber, <<>>))
DiscNumber ==
    IF parser = "FLAC" THEN FLACDiscNumber
    ELSE IF parser = "MP3" THEN MP3DiscNumber
    ELSE OggDiscNumber

\* FLACParser.SampleRate()
FLACSampleRate == properties.SampleRate

\* a time.Duration is an int64 count of nanoseconds, kept as its 8 bytes in
\* two's complement, most significant first; arithmetic on it wraps
Int64(b) == SubSeq(b, Len(b) - 7, Len(b))

\* the bytes of 10^9 times the integer of the bytes q, not wrapped
Nanoseconds(q) == MulBytes(MulBytes(MulBytes(q, 1000, 0), 1000, 0), 1000, 0)

DurationOfMilliseconds(q) == Int64(MulBytes(MulBytes(q, 1000, 0), 1000, 0))

\* time.Duration(q) * time.Second
DurationOfSeconds(q) == Int64(Nanoseconds(q))

\* b + 1 and -b in two's complement
RECURSIVE IncBytes(_)
IncBytes(b) ==
    IF b = <<>> THEN <<>>
    ELSE IF b[Len(b)] < 255
    THEN SubSeq(b, 1, Len(b) - 1) \o <<b[Len(b)] + 1>>
    ELSE IncBytes(SubSeq(b, 1, Len(b) - 1)) \o <<0>>
Neg64(b) == IncBytes([i \in 1..Len(b) |-> 255 - b[i]])

\* time.Duration(n) * time.Second for an int n
DurationOfInt(n) ==
    IF n >= 0 THEN DurationOfSeconds(BE4(n))
    ELSE Neg64(DurationOfSeconds(BE4(0 - n)))

FloorDiv(a, k) == a \div k

\* Go's integer division, which rounds towards zero
TruncDiv(a, k) == IF a >= 0 THEN a \div k ELSE 0 - ((0 - a) \div k)

\* what an accessor that divides gives: the value, or the run-time panic of
\* an integer division by zero
DurationResult(panic, ns) == [panic |-> panic, ns |-> ns]

\* FLACParser.Duration()
FLACDuration ==
    IF FLACSampleRate = 0 THEN DurationResult(TRUE, Zeros(8))
    ELSE DurationResult(FALSE,
             DurationOfSeconds(DivBytes(properties.SampleCount, FLACSampleRate, 0).q))

\* mp3Parser.Duration(): the Xing duration when there is a positive one, else
\* the LENGTH tag in milliseconds, else 0
MP3Duration ==
    LET length == Atoi(Lookup(tags, mp3TagLength, <<>>))
    IN IF xingHeader # <<>> /\ xingHeader[1].Duration > 0
       THEN DurationResult(FALSE, DurationOfInt(xingHeader[1].Duration))
       ELSE IF ~length.ok THEN DurationResult(FALSE, Zeros(8))
       ELSE DurationResult(FALSE, DurationOfInt(TruncDiv(length.val, 1000)))

\* mp3Parser.Bitrate(): the Xing bitrate when there is a positive one, else
\* the table value of the header's bitrate index
MP3Bitrate ==
    IF xingHeader # <<>> /\ xingHeader[1].Bitrate > 0
    THEN xingHeader[1].Bitrate
    ELSE Lookup(mp3BitrateMap, mp3Header.Bitrate, 0)

\* mp3Parser.Channels()
MP3Channels == Lookup(mp3ChannelModeMap, mp3Header.ChannelMode, 0)

\* oggVorbisParser.Duration() and oggVorbisParser.Bitrate()
OggDuration == DurationResult(FALSE, DurationOfInt(duration))
OggBitrate == idHeader.NomBitrate \div 1000

\* FLACParser.Encoder()
FLACEncoder == encoder

\* FLACParser.BitDepth() and FLACParser.Channels()
FLACBitDepth == properties.BitsPerSample
FLACChannels == properties.ChannelCount

\* ------------------------------------------------------------ inputs

\* n as k bytes, most or least significant byte first
BE(n, k) == [i \in 1..k |-> (n \div (256 ^ (k - i))) % 256]
LE(n, k) == [i \in 1..k |-> (n \div (256 ^ (i - 1))) % 256]

RECURSIVE Concat(_)
Concat(ss) == IF ss = <<>> THEN <<>> ELSE ss[1] \o Concat(Tail(ss))

Prefixes(s) == {Slice(s, 0, n) : n \in 0..Len(s)}

\* sequences over the alphabet A of length 0..n
RECURSIVE SeqsUpTo(_, _)
SeqsUpTo(A, n) ==
    IF n = 0 THEN {<<>>}
    ELSE LET shorter == SeqsUpTo(A, n - 1)
         IN shorter \cup {Append(s, a) : s \in shorter, a \in A}

\* text used in tags
KeyValue(key, value) == key \o <<61>> \o value
txtAb == <<65, 98>>                      \* "Ab"
txtArtistLower == <<97, 114, 116, 105, 115, 116>>     \* "artist"
txtNotExists == <<78, 79, 84, 69, 88, 73, 83, 84, 83>>  \* "NOTEXISTS"
NumberTexts ==
    { <<49>>,                 \* "1"
      <<49, 50>>,             \* "12"
      <<49, 47, 49, 50>>,     \* "1/12"
      <<120>>,                \* "x"
      <<>>,                   \* ""
      <<120, 47, 50>>,        \* "x/2"
      <<43, 55>>,             \* "+7"
      <<48, 51>> }            \* "03"

\* the comment lists of the Vorbis comment blocks tried
CommentLists ==
    { <<>>,
      <<KeyValue(tagArtist, txtAb)>>,
      <<KeyValue(txtArtistLower, txtAb)>>,
      <<KeyValue(tagArtist, txtAb), KeyValue(tagAlbum, <<66>>),
        KeyValue(tagTitle, <<67>>)>>,
      <<KeyValue(tagAlbumArtist, <<68>>), KeyValue(tagComment, <<69>>),
        KeyValue(tagDate, <<50, 48>>), KeyValue(tagGenre, <<71>>)>>,
      <<KeyValue(tagComment, <<97, 61, 98>>)>>,       \* "COMMENT=a=b"
      <<txtNotExists>>,                               \* no "="
      <<KeyValue(tagArtist, txtAb), KeyValue(tagArtist, <<66>>)>> }
    \cup {<<KeyValue(tagTrackNumber, v)>> : v \in NumberTexts}
    \cup {<<KeyValue(tagDiscNumber, v)>> : v \in NumberTexts}

StandardComments == <<KeyValue(tagArtist, txtAb), KeyValue(tagTrackNumber, <<49>>)>>
Vendor == <<108, 105, 98>>               \* "lib"

\* a Vorbis comment packet body: vendor, comment count, comments
VorbisCommentBytes(vendor, comments) ==
    LE(Len(vendor), 4) \o vendor \o LE(Len(comments), 4)
    \o Concat([i \in 1..Len(comments) |-> LE(Len(comments[i]), 4) \o comments[i]])

\* FLAC metadata block header and STREAMINFO body
BlockHeaderBytes(last, type, length) ==
    <<(IF last THEN 128 ELSE 0) + type>> \o BE(length, 3)
StreamInfoBytes(sr, ch, bps, sc) ==
    BE(4096, 2) \o BE(4096, 2) \o BE(14, 3) \o BE(5000, 3)
    \o <<sr \div 4096, (sr \div 16) % 256,
         (sr % 16) * 16 + ch * 2 + (bps \div 16), (bps % 16) * 16>>
    \o BE(sc, 4) \o [i \in 1..16 |-> 160 + i]

MaxPadding == 2
SampleRates == {0, 1, 8000, 44100, 48000, 65535, 65536, 96000, 192000, 1048575}

FlacFile(last, type, sr, ch, bps, sc, blocks) ==
    flacMagicNumber \o BlockHeaderBytes(last, type, 34)
    \o StreamInfoBytes(sr, ch, bps, sc) \o blocks
CommentBlock(last, comments) ==
    LET body == VorbisCommentBytes(Vendor, comments)
    IN BlockHeaderBytes(last, flacVorbisComment, Len(body)) \o body
PaddingBlock(last, n) == BlockHeaderBytes(last, 1, n) \o Zeros(n)
StandardFlac ==
    FlacFile(FALSE, 0, 44100, 1, 15, 220500, CommentBlock(TRUE, StandardComments))

\* StandardFlac with sample rate sr and the 36-bit sample count whose top
\* four bits are top and whose other 32 bits are the bytes rest
FlacOfCount(sr, top, rest) ==
    SubSeq(FlacFile(FALSE, 0, sr, 1, 15, 0, CommentBlock(TRUE, StandardComments)),
           1, 21)
    \o <<240 + top>> \o rest
    \o SubSeq(StandardFlac, 27, Len(StandardFlac))
SampleCountLows ==
    {<<0, 0, 0, 0>>, <<0, 0, 0, 1>>, <<0, 3, 93, 84>>, <<128, 0, 0, 0>>,
     <<255, 255, 255, 255>>}
MaxCountTop == 2

FLACInputs ==
    {FlacOfCount(sr, top, rest) :
        sr \in {1, 7, 8, 44100, 65537}, top \in {0, 15} \cup 1..MaxCountTop,
        rest \in SampleCountLows}
    \cup {FlacFile(FALSE, 0, sr, 1, 15, 220500, CommentBlock(TRUE, StandardComments)) :
        sr \in SampleRates}
    \cup {FlacFile(FALSE, 0, 44100, ch, bps, 0, CommentBlock(TRUE, StandardComments)) :
        ch \in {0, 1, 7}, bps \in {0, 15, 23, 31}}
    \cup {FlacFile(last, type, 44100, 1, 15, 220500, CommentBlock(TRUE, StandardComments)) :
        last \in BOOLEAN, type \in {0, 1, 4, 127}}
    \cup {FlacFile(FALSE, 0, 44100, 1, 15, 220500, CommentBlock(last, c)) :
        last \in BOOLEAN, c \in CommentLists}
    \cup {FlacFile(FALSE, 0, 44100, 1, 15, 220500,
                   PaddingBlock(FALSE, n) \o PaddingBlock(last, m)
                   \o CommentBlock(TRUE, StandardComments)) :
        n \in 0..MaxPadding, m \in 0..MaxPadding, last \in BOOLEAN}
    \cup {FlacFile(FALSE, 0, 44100, 1, 15, 220500,
                   BlockHeaderBytes(FALSE, 1, n) \o Zeros(m)) :
        n \in {0, 3}, m \in 0..1}
    \cup Prefixes(StandardFlac)

\* streams that are no more than a damaged magic number
MaxMagicLen == 4
MagicInputs ==
    UNION {SeqsUpTo({magic[i] : i \in 1..Len(magic)} \cup {110}, MaxMagicLen) :
              magic \in {flacMagicNumber, mp3MagicNumber, oggMagicNumber}}

InitWith(inputs) ==
    /\ stream \in inputs
    /\ pos = 0
    /\ low = -1
    /\ pc = "New"
    /\ err = "nil"
    /\ parser = "nil"
    /\ format = "nil"
    /\ mem = NoMem
    /\ tags = EmptyMap
    /\ encoder = <<>>
    /\ properties = NoProperties
    /\ id3Header = <<>>
    /\ mp3Header = <<>>
    /\ xingHeader = <<>>
    /\ frameBuf = <<>>
    /\ tagBuf = <<>>
    /\ headerBuf = [data |-> <<>>, grown |-> FALSE]
    /\ idHeader = <<>>
    /\ duration = 0
    /\ buffer = <<>>
    /\ tagMap = EmptyMap
    /\ todo = 0
    /\ build = AnyBuild
    /\ earlier = <<>>

FlacNext == New \/ parseProperties \/ parseTags \/ parseTagsComment
InitFlac == InitWith(FLACInputs \cup MagicInputs)
SpecFlac == InitFlac /\ [][FlacNext]_vars

\* ID3v2 tag header after "ID3": version, flags, size; then the frames
ID3Flags(extended, footer) ==
    (IF extended THEN 64 ELSE 0) + (IF footer THEN 16 ELSE 0)
ID3HeaderBytes(major, extended, footer) ==
    mp3MagicNumber \o <<major, 0, ID3Flags(extended, footer)>> \o BE(256, 4)
ID3ExtendedBytes(size, n) == BE(size, 4) \o Zeros(n)
\* a text frame: title, length, (flags,) encoding byte and text
ID3Frame(major, title, body) ==
    IF major = 2 THEN title \o BE(Len(body), 3) \o body
    ELSE title \o BE(Len(body), 4) \o <<0, 0>> \o body
TextBody(text) == <<0>> \o text

\* an MPEG audio frame header, the side information and a Xing header
MPEGHeaderBytes(version, layer, bitrate, rate, mode) ==
    <<255, 224 + version * 8 + layer * 2 + 1, bitrate * 16 + rate * 4, mode * 64>>
XingBytes(marker, frameCount, streamSize) ==
    marker \o <<0, 0, 0, 3>> \o BE(frameCount, 4) \o BE(streamSize, 4)
MPEGFrame(version, layer, bitrate, rate, mode, xing) ==
    MPEGHeaderBytes(version, layer, bitrate, rate, mode) \o Zeros(4) \o xing
StandardXing == XingBytes(mp3XingMarker, 8345, 3200000)
\* an MPEG1 Layer III frame with the Xing marker so late that the marker and
\* the after bytes behind it end a header buffer that starts at the frame, as
\* it does when the frame follows four bytes of padding
LateXingFrame(after) ==
    MPEGHeaderBytes(3, 1, 9, 0, 0)
    \o Zeros(mp3HeaderBufLen - 4 - Len(mp3XingMarker) - after)
    \o mp3XingMarker \o <<0, 0, 0, 3>> \o BE(8345, 4) \o BE(3200000, 4)
\* an MPEG1 Layer III frame whose second byte has the bits top where the last
\* three bits of the frame sync are
FrameOfSyncBits(top) ==
    <<255, top * 32 + 3 * 8 + 1 * 2 + 1, 9 * 16, 0>> \o Zeros(4) \o StandardXing
StandardFrame == MPEGFrame(3, 1, 9, 0, 0, StandardXing)

\* frame titles by ID3v2 major version: title, artist, track, disc, length
titleTT2 == <<84, 84, 50>>
titleTP1 == <<84, 80, 49>>
titleTRK == <<84, 82, 75>>
titleTPA == <<84, 80, 65>>
titleTIT2 == <<84, 73, 84, 50>>
titleTPE1 == <<84, 80, 69, 49>>
titleTRCK == <<84, 82, 67, 75>>
titleTPOS == <<84, 80, 79, 83>>
titleTLEN == <<84, 76, 69, 78>>
titleTXXX == <<84, 88, 88, 88>>
TrackTitle(major) == IF major = 2 THEN titleTRK ELSE titleTRCK
DiscTitle(major) == IF major = 2 THEN titleTPA ELSE titleTPOS
ArtistTitle(major) == IF major = 2 THEN titleTP1 ELSE titleTPE1

StandardFrames(major) ==
    ID3Frame(major, ArtistTitle(major), TextBody(txtAb))
    \o ID3Frame(major, TrackTitle(major), TextBody(<<49>>))

MP3File(major, extended, footer, frames, audio) ==
    ID3HeaderBytes(major, extended, footer)
    \o (IF extended THEN ID3ExtendedBytes(6, 2) ELSE <<>>) \o frames \o audio
StandardMP3 == MP3File(3, FALSE, FALSE, StandardFrames(3), StandardFrame)

\* number of zero bytes between the frames and the audio
MaxID3Padding == 2
\* a stream long enough for the padding search to read a full buffer and more
LongAudio(n, frame) == Zeros(n) \o frame \o Zeros(mp3HeaderBufLen)

\* texts of a TLEN frame: "1500", "1999", "999", "-1500", "+7", "A" and ""
LengthTexts ==
    {<<49, 53, 48, 48>>, <<49, 57, 57, 57>>, <<57, 57, 57>>,
     <<45, 49, 53, 48, 48>>, <<43, 55>>, <<65>>, <<>>}

\* sizes an extended header declares: the size field counts itself
ExtendedSizes == {0, 3, 4, 10, 1000}

XingFrameCounts == {0, 1, 38, 750, 8345, 1000000}
XingStreamSizes == {0, 1, 40000, 3200000, 536870911, 536870912}

MP3Inputs ==
    {MP3File(major, extended, footer, StandardFrames(major), StandardFrame) :
        major \in 0..5, extended \in BOOLEAN, footer \in BOOLEAN}
    \cup {MP3File(3, FALSE, FALSE, StandardFrames(3),
                  MPEGFrame(version, layer, 9, 0, 0, StandardXing)) :
            version \in 0..3, layer \in 0..3}
    \cup {MP3File(3, FALSE, FALSE, StandardFrames(3),
                  MPEGFrame(3, 1, bitrate, rate, mode, StandardXing)) :
            bitrate \in {0, 9, 14, 15}, rate \in 0..3, mode \in 0..3}
    \cup {MP3File(4, FALSE, FALSE, StandardFrames(4),
                  MPEGFrame(3, 1, 9, rate, 0, XingBytes(marker, fc, size))) :
            rate \in {0, 2}, marker \in {mp3XingMarker, mp3InfoMarker},
            fc \in XingFrameCounts, size \in XingStreamSizes}
    \cup {MP3File(major, FALSE, FALSE,
                  ID3Frame(major, TrackTitle(major), TextBody(t))
                  \o ID3Frame(major, DiscTitle(major), TextBody(d)),
                  MPEGFrame(3, 1, 9, 0, 0, <<>>)) :
            major \in 2..4, t \in NumberTexts, d \in {<<50>>, <<50, 47, 51>>}}
    \cup {MP3File(major, FALSE, FALSE,
                  ID3Frame(major, DiscTitle(major), TextBody(d)),
                  MPEGFrame(3, 1, 9, 0, 0, <<>>)) :
            major \in 2..4, d \in NumberTexts}
    \cup {MP3File(3, FALSE, FALSE, ID3Frame(3, title, body), StandardFrame) :
            title \in {titleTIT2, titleTLEN, titleTXXX, mp3APICFrame},
            body \in {<<>>, TextBody(<<>>), TextBody(<<49, 53, 48, 48>>),
                      TextBody(<<255, 254, 65>>), TextBody(<<65, 0>>)}}
    \cup {MP3File(major, FALSE, FALSE,
                  ID3Frame(major, ArtistTitle(major), Zeros(mp3TagBufLen + over))
                  \o StandardFrames(major), StandardFrame) :
            major \in 2..4, over \in 0..1}
    \cup {ID3HeaderBytes(major, TRUE, FALSE) \o ID3ExtendedBytes(size, n)
           \o StandardFrames(major) \o StandardFrame :
            major \in 3..4, size \in ExtendedSizes, n \in {0, 6}}
    \cup {MP3File(major, FALSE, FALSE,
                  ID3Frame(major, titleTLEN, TextBody(t)),
                  MPEGFrame(3, 1, bitrate, 0, 0, <<>>)) :
            major \in 3..4, t \in LengthTexts, bitrate \in {0, 9, 15}}
    \cup {MP3File(3, extended, FALSE, StandardFrames(3),
                  LongAudio(n, MPEGFrame(3, layer, 9, 0, 0, xing))) :
            extended \in BOOLEAN, n \in 1..MaxID3Padding, layer \in {1, 2},
            xing \in {<<>>, StandardXing}}
    \cup {MP3File(3, FALSE, FALSE, StandardFrames(3), Zeros(n)) :
            n \in 0..MaxID3Padding}
    \cup {MP3File(3, FALSE, FALSE, StandardFrames(3),
                  Zeros(Len(titleTIT2)) \o LateXingFrame(after)) :
            after \in {4, 8, 12}}
    \cup {MP3File(3, FALSE, FALSE, StandardFrames(3), Zeros(n) \o FrameOfSyncBits(top)) :
            n \in 0..1, top \in {0, 5, 7}}
    \cup Prefixes(StandardMP3)

Mp3Next ==
    \/ New
    \/ parseID3v2Header
    \/ parseID3v2Frames
    \/ parseMP3Header
    \/ parseMP3HeaderFields
InitMp3 == InitWith(MP3Inputs \cup MagicInputs)
SpecMp3 == InitMp3 /\ [][Mp3Next]_vars

\* an Ogg page header: capture pattern, version, type, granule position,
\* serial, sequence, checksum, segment count and segment table
OggPageBytes(magic, version, granule, segments) ==
    magic \o <<version, 0>> \o LE(granule, 4) \o Zeros(4) \o LE(1, 4) \o LE(0, 4)
    \o <<1, 2, 3, 4>> \o <<segments>> \o [i \in 1..segments |-> 1]
\* the Vorbis identification and comment packets
OggIDPacket(type, word, version, rate, nominal) ==
    <<type>> \o word \o LE(version, 4) \o <<2>> \o LE(rate, 4) \o LE(0, 4)
    \o LE(nominal, 4) \o LE(0, 4) \o <<184, 1>>
OggCommentPacket(type, vendor, comments) ==
    <<type>> \o oggVorbisVorbisWord \o VorbisCommentBytes(vendor, comments) \o <<1>>

OggFirstPage(version, type, word, vorbisVersion, rate) ==
    OggPageBytes(oggMagicNumber, version, 0, 1)
    \o OggIDPacket(type, word, vorbisVersion, rate, 192000)
OggSecondPageOfVersion(magic, version, type, vendor, comments) ==
    OggPageBytes(magic, version, 0, 2) \o OggCommentPacket(type, vendor, comments)
OggSecondPage(magic, type, vendor, comments) ==
    OggSecondPageOfVersion(magic, 0, type, vendor, comments)
StandardFirstPage == OggFirstPage(0, 1, oggVorbisVorbisWord, 0, 44100)
StandardSecondPage == OggSecondPage(oggMagicNumber, 3, Vendor, StandardComments)
StandardLastPage == OggPageBytes(oggMagicNumber, 0, 220500, 1)

\* audio data between the headers and the last page: enough of it for the
\* stream to be longer than the tail parseOGGVorbisDuration reads
OggAudio(extra) == Zeros(oggTailLen + extra)
MaxOggExtra == 1

OggFile(first, second, audio, last) == first \o second \o audio \o last
StandardOgg ==
    OggFile(StandardFirstPage, StandardSecondPage, OggAudio(0), StandardLastPage)
ShortOgg ==
    OggFile(StandardFirstPage, StandardSecondPage, <<>>, StandardLastPage)
\* the standard stream with as much audio as makes it n bytes long
OggOfLength(n) ==
    OggFile(StandardFirstPage, StandardSecondPage, Zeros(n - Len(ShortOgg)),
            StandardLastPage)
MaxOggOver == 5

wordVorbiz == <<118, 111, 114, 98, 105, 122>>          \* "vorbiz"
magicOgg5 == <<79, 103, 103, 53>>                      \* "Ogg5"

OggInputs ==
    {OggFile(StandardFirstPage, OggSecondPage(oggMagicNumber, 3, Vendor, c),
             OggAudio(0), StandardLastPage) : c \in CommentLists}
    \cup {OggFile(OggFirstPage(version, type, word, vorbisVersion, 44100),
                  StandardSecondPage, OggAudio(0), StandardLastPage) :
            version \in {0, 1}, type \in {1, 3}, vorbisVersion \in {0, 1},
            word \in {oggVorbisVorbisWord, wordVorbiz}}
    \cup {OggFile(StandardFirstPage, OggSecondPage(magic, type, vendor, StandardComments),
                  OggAudio(0), StandardLastPage) :
            magic \in {oggMagicNumber, magicOgg5}, type \in {1, 3},
            vendor \in {<<>>, Vendor, Zeros(oggBufferLen), Zeros(oggBufferLen + 1)}}
    \cup {OggFile(OggFirstPage(0, 1, oggVorbisVorbisWord, 0, rate),
                  StandardSecondPage, OggAudio(extra),
                  OggPageBytes(oggMagicNumber, version, granule, 0)) :
            rate \in {0, 1, 44100, 48000}, extra \in 0..MaxOggExtra,
            version \in {0, 1}, granule \in {0, 44099, 220500, 1000000}}
    \cup {OggFile(StandardFirstPage, StandardSecondPage, OggAudio(0), last) :
            last \in Prefixes(StandardLastPage)}
    \cup {OggFile(StandardFirstPage, StandardSecondPage, OggAudio(0),
                  StandardLastPage \o OggPageBytes(oggMagicNumber, version, 441000, 0)) :
            version \in {0, 1}}
    \cup {OggFile(StandardFirstPage,
                  OggSecondPageOfVersion(oggMagicNumber, 1, type, Vendor, StandardComments),
                  OggAudio(0), StandardLastPage) : type \in {1, 3}}
    \cup {OggOfLength(oggTailLen + over) : over \in (0 - 1)..MaxOggOver}
    \cup Prefixes(ShortOgg)

OggNext ==
    \/ New
    \/ parseOGGVorbisIDHeader
    \/ parseOGGVorbisCommentHeader
    \/ parseOGGVorbisComment
    \/ parseOGGVorbisDuration
InitOgg == InitWith(OggInputs \cup MagicInputs)
SpecOgg == InitOgg /\ [][OggNext]_vars

Init == InitWith(FLACInputs \cup MP3Inputs \cup OggInputs \cup MagicInputs)
Next ==
    \/ New
    \/ parseProperties
    \/ parseTags
    \/ parseTagsComment
    \/ parseID3v2Header
    \/ parseID3v2Frames
    \/ parseMP3Header
    \/ parseMP3HeaderFields
    \/ parseOGGVorbisIDHeader
    \/ parseOGGVorbisCommentHeader
    \/ parseOGGVorbisComment
    \/ parseOGGVorbisDuration
Spec == Init /\ [][Next]_vars

\* New runs to its end without waiting for anything: a step that can be taken
\* is taken.  This is weak fairness of Next; for parseMP3HeaderFields, which
\* is enabled exactly when pc names it, the enabling condition is written out.
NextButHeaderFields ==
    \/ New
    \/ parseProperties
    \/ parseTags
    \/ parseTagsComment
    \/ parseID3v2Header
    \/ parseID3v2Frames
    \/ parseMP3Header
    \/ parseOGGVorbisIDHeader
    \/ parseOGGVorbisCommentHeader
    \/ parseOGGVorbisComment
    \/ parseOGGVorbisDuration
SpecLive ==
    /\ Spec
    /\ WF_vars(NextButHeaderFields)
    /\ []<>(pc # "parseMP3HeaderFields") \/ []<><<parseMP3HeaderFields>>_vars

\* what a call of New returns, as the caller can see it: the error, the
\* parser and all that the accessors of the parser read
Outcome ==
    [err |-> err, parser |-> parser, tags |-> tags, encoder |-> encoder,
     properties |-> properties, mp3Header |-> mp3Header,
     xingHeader |-> xingHeader, idHeader |-> idHeader, duration |-> duration]

\* New once more, on a new reader over the same bytes: the constructors make
\* a new parser with new buffers, and the package has no variable that a
\* call writes
NewAgain ==
    /\ pc = "done"
    /\ earlier = <<>>
    /\ earlier' = <<Outcome>>
    /\ pos' = 0
    /\ low' = -1
    /\ pc' = "New"
    /\ err' = "nil"
    /\ parser' = "nil"
    /\ format' = "nil"
    /\ mem' = NoMem
    /\ tags' = EmptyMap
    /\ encoder' = <<>>
    /\ properties' = NoProperties
    /\ id3Header' = <<>>
    /\ mp3Header' = <<>>
    /\ xingHeader' = <<>>
    /\ frameBuf' = <<>>
    /\ tagBuf' = <<>>
    /\ headerBuf' = [data |-> <<>>, grown |-> FALSE]
    /\ idHeader' = <<>>
    /\ duration' = 0
    /\ buffer' = <<>>
    /\ tagMap' = EmptyMap
    /\ todo' = 0
    /\ UNCHANGED <<stream, build>>

TwiceNext ==
    \/ New
    \/ parseProperties
    \/ parseTags
    \/ parseTagsComment
    \/ parseID3v2Header
    \/ parseID3v2Frames
    \/ parseMP3Header
    \/ parseMP3HeaderFields
    \/ parseOGGVorbisIDHeader
    \/ parseOGGVorbisCommentHeader
    \/ parseOGGVorbisComment
    \/ parseOGGVorbisDuration
    \/ NewAgain
SpecTwice == Init /\ [][TwiceNext]_vars

\* ------------------------------------------------------------ claims

\* New alone, on streams that are at most a damaged magic number and on the
\* starts of real streams
MagicNext == New
InitMagic ==
    InitWith(MagicInputs \cup Prefixes(Slice(StandardFlac, 0, 8))
             \cup Prefixes(Slice(StandardMP3, 0, 8))
             \cup Prefixes(Slice(ShortOgg, 0, 8)))
SpecMagic == InitMagic /\ [][MagicNext]_vars

\* the stream starts with "fLaC", "ID3" or "OggS"
StartsWith(s, magic) == Len(s) >= Len(magic) /\ SubSeq(s, 1, Len(magic)) = magic
StartsWithMagic(s) ==
    \E magic \in {flacMagicNumber, mp3MagicNumber, oggMagicNumber} :
        StartsWith(s, magic)

\* New has returned
Returned == pc = "done"

\* C1 as stated: for every stream that does not start with "fLaC", "ID3" or
\* "OggS", streams shorter than 4 bytes included, New returns the
\* UnknownFormat error and no parser, having consumed at most 4 bytes.
C1_UnknownFormatAlways ==
    (pc # "New" /\ ~StartsWithMagic(stream))
        => (Returned /\ err = "UnknownFormat" /\ parser = "nil" /\ pos <= 4)

\* the streams on which a read New issues finds nothing left to read: the
\* empty stream, and a lone "f", "I" or "O"
EndsInsideMagicRead(s) ==
    \/ Len(s) = 0
    \/ Len(s) = 1 /\ s[1] \in {flacMagicNumber[1], mp3MagicNumber[1], oggMagicNumber[1]}

\* what New does on a stream that does not start with "fLaC", "ID3" or "OggS":
\* it returns no parser and has consumed at most 4 bytes; the error is
\* UnknownFormat, except that it is the end-of-stream error io.EOF when the
\* stream is empty or is a single byte "f", "I" or "O".
C1_UnknownFormatUnlessEOF ==
    (pc # "New" /\ ~StartsWithMagic(stream))
        => /\ Returned
           /\ parser = "nil"
           /\ pos <= 4
           /\ err = IF EndsInsideMagicRead(stream) THEN "EOF" ELSE "UnknownFormat"

\* a one-byte stream "f" has been answered with io.EOF
C1_LoneFirstByte ==
    /\ Returned
    /\ stream = <<flacMagicNumber[1]>>
    /\ err = "EOF"
    /\ pos = 1

\* New hands the stream to the parser of its magic number, which starts to
\* read right after the magic; the parser returned has the Format() of the
\* magic
ParserStarts == pc \in {"parseProperties", "parseID3v2Header", "parseOGGVorbisIDHeader"}
MagicLen == IF format = "MP3" THEN Len(mp3MagicNumber) ELSE Len(flacMagicNumber)
DispatchByMagic ==
    /\ ParserStarts =>
          /\ StartsWithMagic(stream)
          /\ pc = "parseProperties" => StartsWith(stream, flacMagicNumber) /\ pos = 4
          /\ pc = "parseID3v2Header" => StartsWith(stream, mp3MagicNumber) /\ pos = 3
          /\ pc = "parseOGGVorbisIDHeader" => StartsWith(stream, oggMagicNumber) /\ pos = 4
    /\ (pc # "New" /\ StartsWith(stream, flacMagicNumber)) => format = "FLAC"
    /\ (pc # "New" /\ StartsWith(stream, mp3MagicNumber)) => format = "MP3"
    /\ (pc # "New" /\ StartsWith(stream, oggMagicNumber)) => format = "Ogg Vorbis"
    /\ (Returned /\ parser # "nil") => Format = format

\* C2 as stated: New selects the parser by the magic number only; the parser
\* starts to read right after the magic (offset 4 for "fLaC", 3 for "ID3", 4
\* for "OggS"), the magic bytes are never read a second time, and the parser
\* returned has the Format() of the magic.
C2_MagicNeverReadAgain ==
    /\ DispatchByMagic
    /\ low # -1 => low >= MagicLen

\* C2 amended: as C2, except that the Ogg Vorbis duration scan re-reads the
\* last 4096 bytes of the stream, which is the only place where magic bytes are
\* read again, and only in a stream shorter than 4096 + 4 bytes.
C2_MagicReadAgainOnlyByTailScan ==
    /\ DispatchByMagic
    /\ (low # -1 /\ low < MagicLen) =>
          /\ format = "Ogg Vorbis"
          /\ low = Len(stream) - oggTailLen
          /\ pc = "done"

\* an Ogg Vorbis stream of exactly 4096 bytes has been parsed: the duration
\* scan has read it again from offset 0
C2_Witness ==
    /\ Returned
    /\ Format = "Ogg Vorbis"
    /\ err = "nil"
    /\ Len(stream) = oggTailLen
    /\ low = 0

\* the last Ogg page of the tail window of stream s: the bytes from the last
\* "OggS" of the last 4096 bytes on, <<>> when there is none
TailWindow(s) == Slice(s, Len(s) - oggTailLen, Len(s))
LastPageOf(s) ==
    LET index == LastIndex(TailWindow(s), oggMagicNumber)
    IN IF index = -1 THEN <<>> ELSE Slice(TailWindow(s), index, Len(TailWindow(s)))

\* the header of page bytes p cannot be parsed: its version byte is not 0, or
\* the bytes end inside the 27-byte header
oggPageHeaderLen == 27
PageHeaderUnparsable(p) ==
    \/ Len(p) < oggPageHeaderLen
    \/ p[5] # 0

\* New has come to the duration scan of an Ogg Vorbis stream, found a last
\* page in the tail window, and returned
OggTailScanned ==
    /\ Returned
    /\ format = "Ogg Vorbis"
    /\ mem # NoMem
    /\ Len(stream) >= oggTailLen

\* C3: for Ogg Vorbis, when the header of the last page found in the tail
\* window cannot be parsed (version byte not 0, or the stream ends inside the
\* header), New returns an error and no parser.
C3_NoParserWhenLastPageFails ==
    (OggTailScanned /\ PageHeaderUnparsable(LastPageOf(stream)))
        => (parser = "nil" /\ err # "nil")

\* the state C3 excludes: a parser returned without error and with the zero
\* duration, from a stream whose last page has version byte 1
C3_ParserWithUnsetDuration ==
    /\ OggTailScanned
    /\ Len(LastPageOf(stream)) >= oggPageHeaderLen
    /\ LastPageOf(stream)[5] = 1
    /\ parser = "Ogg Vorbis"
    /\ err = "nil"
    /\ duration = 0

\* the ID3v2 header of an MP3 stream s as its bytes give it: after "ID3" come
\* the major version, the minor version and the flags byte, whose bit 16 is
\* the footer flag; the header is 10 bytes
id3HeaderLen == 10
ID3Major(s) == s[4]
ID3FooterFlag(s) == (s[6] \div 16) % 2 = 1

\* the MP3 parser has read the whole ID3v2 header
ID3HeaderRead ==
    /\ format = "MP3"
    /\ pc \notin {"New", "parseID3v2Header"}
    /\ Len(stream) >= id3HeaderLen

\* C4: an ID3v2 header whose major version is outside 2..4 makes New fail with
\* UnsupportedVersion; one whose major version is 2 or 3 with the footer flag
\* set makes New fail with InvalidStream; the version is checked first, so an
\* unsupported version with the footer flag set is UnsupportedVersion; no
\* parser is returned in either case.
C4_ID3VersionThenFooter ==
    ID3HeaderRead =>
        /\ ID3Major(stream) \notin 2..4
              => (Returned /\ err = "UnsupportedVersion" /\ parser = "nil")
        /\ (ID3Major(stream) \in 2..3 /\ ID3FooterFlag(stream))
              => (Returned /\ err = "InvalidStream" /\ parser = "nil")

\* an ID3v2 header of major version 1 with the footer flag set has been
\* rejected as an unsupported version, not as an invalid stream
C4_Witness ==
    /\ ID3HeaderRead
    /\ ID3Major(stream) = 1
    /\ ID3FooterFlag(stream)
    /\ Returned
    /\ err = "UnsupportedVersion"
    /\ parser = "nil"

\* the MP3 parser has found the frame header, the bytes from the first byte
\* 255 on, and New has returned
MPEGHeaderChecked ==
    /\ Returned
    /\ format = "MP3"
    /\ headerBuf.data # <<>>
    /\ headerBuf.data[1] = 255

\* the version ID and layer ID of the frame header as its second byte gives
\* them: three sync bits, two version bits, two layer bits, the protection bit
MPEGVersionBits == (headerBuf.data[2] \div 8) % 4
MPEGLayerBits == (headerBuf.data[2] \div 2) % 4

\* C5: New accepts an MPEG frame header only when its version ID is 3 and its
\* layer ID is 1; for each of the other 15 combinations of the two fields New
\* fails with UnsupportedVersion and returns no parser.
C5_OnlyMPEG1Layer3 ==
    MPEGHeaderChecked =>
        IF MPEGVersionBits = 3 /\ MPEGLayerBits = 1
        THEN err # "UnsupportedVersion"
        ELSE err = "UnsupportedVersion" /\ parser = "nil"

\* a frame header of MPEG version 1 (ID 3) and layer 2 (ID 2) has been
\* rejected
C5_Witness ==
    /\ MPEGHeaderChecked
    /\ MPEGVersionBits = 3
    /\ MPEGLayerBits = 2
    /\ err = "UnsupportedVersion"
    /\ parser = "nil"

\* the first metadata block header of a FLAC stream s as its fifth byte gives
\* it: the last-block flag and the 7-bit block type
flacBlockHeaderLen == 4
flacStreamInfoLen == 34
FirstBlockLast(s) == s[5] >= 128
FirstBlockType(s) == s[5] % 128

\* the FLAC parser has read the first block header
FirstHeaderRead ==
    /\ format = "FLAC"
    /\ pc \notin {"New", "parseProperties"}
    /\ Len(stream) >= Len(flacMagicNumber) + flacBlockHeaderLen

\* STREAMINFO has been decoded into the parser's properties
StreamInfoDecoded == "MD5Checksum" \in DOMAIN properties

\* C6: a FLAC stream whose first metadata block is not of type 0 (STREAMINFO),
\* or has the last-block flag set, makes New fail with InvalidStream and no
\* parser; otherwise STREAMINFO, when the stream holds all of it, is decoded.
C6_FirstBlockIsStreamInfo ==
    FirstHeaderRead =>
        IF FirstBlockType(stream) # 0 \/ FirstBlockLast(stream)
        THEN Returned /\ err = "InvalidStream" /\ parser = "nil"
             /\ ~StreamInfoDecoded
        ELSE Len(stream) >= Len(flacMagicNumber) + flacBlockHeaderLen
                              + flacStreamInfoLen
                => StreamInfoDecoded

\* a first block of type 0 with the last-block flag set has been rejected
C6_Witness ==
    /\ FirstHeaderRead
    /\ FirstBlockType(stream) = 0
    /\ FirstBlockLast(stream)
    /\ Returned
    /\ err = "InvalidStream"
    /\ parser = "nil"

\* a FLAC stream with a sound first block header that ends before the MD5
\* checksum of STREAMINFO: after the magic, the 4-byte block header and the
\* 18 bytes of the STREAMINFO fields there is nothing left to read
flacStreamInfoFieldsLen == 18
EndsBeforeChecksum(s) ==
    /\ StartsWith(s, flacMagicNumber)
    /\ Len(s) <= Len(flacMagicNumber) + flacBlockHeaderLen + flacStreamInfoFieldsLen
    /\ Len(s) > Len(flacMagicNumber)
          => (FirstBlockType(s) = 0 /\ ~FirstBlockLast(s))

\* C7: a failed read or seek makes New return that I/O error and never a
\* domain classification; in particular New on a FLAC stream that ends before
\* the 16-byte MD5 checksum of STREAMINFO returns an I/O error, not
\* InvalidStream, and no parser.
C7_ReadFailureIsIOError ==
    (Returned /\ EndsBeforeChecksum(stream))
        => (err \in IOErrors /\ parser = "nil")

\* the state C7 excludes: a FLAC stream that ends right where the checksum
\* should start has been answered with InvalidStream
C7_ChecksumEOFAsInvalidStream ==
    /\ Returned
    /\ EndsBeforeChecksum(stream)
    /\ Len(stream) = Len(flacMagicNumber) + flacBlockHeaderLen + flacStreamInfoFieldsLen
    /\ err = "InvalidStream"

\* the shapes of a numeric tag's text: a decimal integer, "N/M" with decimal
\* integers N and M, and text without any digit (the empty text of an absent
\* tag included)
AllDigits(t) == t # <<>> /\ \A i \in 1..Len(t) : IsDigit(t[i])
NoDigit(t) == \A i \in 1..Len(t) : ~IsDigit(t[i])
SlashAt(t) == CHOOSE k \in 1..Len(t) : t[k] = 47
IsNOverM(t) ==
    /\ \E k \in 1..Len(t) : t[k] = 47
    /\ AllDigits(SubSeq(t, 1, SlashAt(t) - 1))
    /\ AllDigits(SubSeq(t, SlashAt(t) + 1, Len(t)))

\* New has returned a parser
ParserReturned == Returned /\ parser # "nil"

\* C8: in all three formats TrackNumber() is N when TRACKNUMBER is a decimal
\* integer N or has the form "N/M", and 0 when the tag is absent or is not
\* numeric; DiscNumber() is the integer value of DISCNUMBER, and 0 when the
\* tag is absent or is not numeric.
C8_TrackAndDiscNumbers ==
    ParserReturned =>
        LET track == Lookup(tags, tagTrackNumber, <<>>)
            disc == Lookup(tags, tagDiscNumber, <<>>)
        IN /\ AllDigits(track) => TrackNumber = DigitsVal(track)
           /\ IsNOverM(track)
                 => TrackNumber = DigitsVal(SubSeq(track, 1, SlashAt(track) - 1))
           /\ NoDigit(track) => TrackNumber = 0
           /\ AllDigits(disc) => DiscNumber = DigitsVal(disc)
           /\ NoDigit(disc) => DiscNumber = 0

\* the state C8 excludes: a FLAC parser whose TRACKNUMBER is "1/12" and whose
\* TrackNumber() is 0
C8_FLACTrackOfNOverM ==
    /\ ParserReturned
    /\ parser = "FLAC"
    /\ Lookup(tags, tagTrackNumber, <<>>) = <<49, 47, 49, 50>>
    /\ TrackNumber = 0

\* the names Tag is asked for: the canonical names, a lower-case spelling, a
\* name no stream stores, and the empty name
TagNames ==
    {tagAlbum, tagAlbumArtist, tagArtist, tagComment, tagDate, tagDiscNumber,
     tagGenre, tagPublisher, tagTitle, tagTrackNumber,
     txtArtistLower, txtNotExists, <<>>}

StreamSampleRate(s) == s[19] * 4096 + s[20] * 16 + s[21] \div 16

\* C10: for every FLAC stream New parses, SampleRate() is the value of the
\* 20-bit sample rate field of STREAMINFO, for every value 0..2^20-1.
C10_SampleRateIsField ==
    (ParserReturned /\ parser = "FLAC")
        => FLACSampleRate = StreamSampleRate(stream)

\* the state C10 excludes: a FLAC stream of sample rate 96000 whose
\* SampleRate() is 30464
C10_SampleRate96000 ==
    /\ ParserReturned
    /\ parser = "FLAC"
    /\ StreamSampleRate(stream) = 96000
    /\ FLACSampleRate = 30464

\* the 36-bit sample count field of STREAMINFO as the bytes of a FLAC stream s
\* give it, as a uint64: the low four bits of byte 22 and the four bytes after
StreamSampleCount(s) == <<0, 0, 0, s[22] % 16>> \o SubSeq(s, 23, 26)

\* New has returned a FLAC parser
FLACParsed == ParserReturned /\ parser = "FLAC"

\* the time.Duration d is exactly q whole seconds, q given by its bytes: the
\* nanoseconds of q seconds are the int64 d, which is not negative
IsWholeSeconds(d, q) ==
    /\ d[1] < 128
    /\ Nanoseconds(q) = Zeros(Len(Nanoseconds(q)) - 8) \o d

\* C11: for every FLAC stream New parses whose SampleRate() is not 0,
\* Duration() is exactly floor(SampleCount / SampleRate()) whole seconds,
\* SampleCount being the 36-bit sample count field.
C11_DurationIsCountOverRate ==
    (FLACParsed /\ FLACSampleRate # 0) =>
        /\ ~FLACDuration.panic
        /\ IsWholeSeconds(FLACDuration.ns,
               DivBytes(StreamSampleCount(stream), FLACSampleRate, 0).q)

\* a <= b for unsigned integers given by as many bytes each
LeqBytes(a, b) ==
    \/ a = b
    \/ \E i \in 1..Len(a) : a[i] < b[i] /\ \A j \in 1..(i - 1) : a[j] = b[j]

\* 9223372036, the largest whole number of seconds a time.Duration holds, as
\* a uint64
maxDurationSeconds == <<0, 0, 0, 2, 37, 193, 125, 4>>

\* C11 amended: for every FLAC stream New parses whose SampleRate() is not
\* 0 and whose floor(SampleCount / SampleRate()) is at most 9223372036, the
\* largest number of seconds a time.Duration holds, Duration() is exactly
\* that many whole seconds.
C11_DurationIsCountOverRateInRange ==
    (FLACParsed /\ FLACSampleRate # 0) =>
        LET q == DivBytes(StreamSampleCount(stream), FLACSampleRate, 0).q
        IN LeqBytes(q, maxDurationSeconds)
              => (~FLACDuration.panic /\ IsWholeSeconds(FLACDuration.ns, q))

\* the sample count 2^36 - 1 at sample rate 8 has been parsed: Duration() is
\* 8589934591 s
C11_Witness ==
    /\ FLACParsed
    /\ FLACSampleRate = 8
    /\ StreamSampleCount(stream) = <<0, 0, 0, 15, 255, 255, 255, 255>>
    /\ IsWholeSeconds(FLACDuration.ns, <<0, 0, 0, 1, 255, 255, 255, 255>>)

\* the channel and bits-per-sample fields of STREAMINFO as the bytes of a
\* FLAC stream s give them: 3 bits and 5 bits after the 20 sample rate bits
StreamChannels(s) == (s[21] \div 2) % 8
StreamBitsPerSample(s) == (s[21] % 2) * 16 + s[22] \div 16

\* C12: for every FLAC stream New parses, Channels() is the 3-bit channel
\* field plus 1, within 1..8, and BitDepth() is the 5-bit bits-per-sample
\* field plus 1, within 1..32.
C12_ChannelsAndBitDepthPlusOne ==
    FLACParsed =>
        /\ FLACChannels = StreamChannels(stream) + 1
        /\ FLACChannels \in 1..8
        /\ FLACBitDepth = StreamBitsPerSample(stream) + 1
        /\ FLACBitDepth \in 1..32

\* a FLAC stream with the largest field values, 7 and 31, has been parsed to
\* 8 channels of 32 bits
C12_Witness ==
    /\ FLACParsed
    /\ StreamChannels(stream) = 7
    /\ StreamBitsPerSample(stream) = 31
    /\ FLACChannels = 8
    /\ FLACBitDepth = 32

\* New has returned an MP3 parser that holds a Xing header with a positive
\* duration
XingParsed ==
    /\ ParserReturned
    /\ parser = "MP3"
    /\ xingHeader # <<>>
    /\ xingHeader[1].Duration > 0

\* floor(1152 * frameCount / sampleRate) and
\* floor(streamSize * 8 / duration / 1000), neither product wrapped, as bytes
XingSeconds(frameCount, sampleRate) ==
    DivBytes(MulBytes(BE4(frameCount), mp3SamplesPerFrame, 0), sampleRate, 0).q
XingKbps(streamSize, dur) ==
    DivBytes(DivBytes(MulBytes(BE4(streamSize), 8, 0), dur, 0).q, 1000, 0).q

\* the integer n as the bytes of a number of the length of b
SameAs(n, b) == Zeros(Len(b) - 4) \o BE4(n) = b

\* C13: when a Xing or Info marker is found and the computed duration is
\* positive, Duration() is floor(1152 * frameCount / sampleRate) seconds and
\* Bitrate() is min(320, floor(streamSize * 8 / duration / 1000)), streamSize
\* * 8 being the true product.
C13_XingDurationAndBitrate ==
    XingParsed =>
        LET xing == xingHeader[1]
            seconds == XingSeconds(xing.FrameCount, MP3SampleRate(mp3Header))
            kbps == XingKbps(xing.StreamSize, xing.Duration)
        IN /\ IsWholeSeconds(MP3Duration.ns, seconds)
           /\ SameAs(xing.Duration, seconds)
           /\ IF LeqBytes(kbps, Zeros(Len(kbps) - 4) \o BE4(320))
              THEN SameAs(MP3Bitrate, kbps)
              ELSE MP3Bitrate = 320

\* the state C13 excludes: a Xing header of stream size 2^29, whose product
\* with 8 wraps to 0 in 32 bits, so that Bitrate() is the table value 128 of
\* bitrate index 9 where the claim gives 320
C13_StreamSizeWrapped ==
    /\ XingParsed
    /\ xingHeader[1].StreamSize = 536870912
    /\ xingHeader[1].FrameCount = 38
    /\ xingHeader[1].Bitrate = 0
    /\ MP3Bitrate = 128

\* New has checked a complete frame header of MPEG version 1, layer III, in
\* a buffer that holds neither marker
NoXingMarker ==
    /\ MPEGHeaderChecked
    /\ Len(headerBuf.data) >= 4
    /\ MPEGVersionBits = 3
    /\ MPEGLayerBits = 1
    /\ Index(headerBuf.data, mp3XingMarker) = -1
    /\ Index(headerBuf.data, mp3InfoMarker) = -1

\* the bitrate index of the frame header: the high four bits of its third byte
MPEGBitrateBits == headerBuf.data[3] \div 16

\* the text of the parsed TLEN frame, empty when there is none, and what it
\* holds: a decimal integer is a run of digits with an optional sign
LengthText == Lookup(tags, mp3TagLength, <<>>)
IsDecimalInteger(t) ==
    \/ AllDigits(t)
    \/ Len(t) >= 2 /\ t[1] \in {43, 45} /\ AllDigits(Tail(t))
DecimalInteger(t) ==
    IF t[1] = 45 THEN 0 - DigitsVal(Tail(t))
    ELSE IF t[1] = 43 THEN DigitsVal(Tail(t))
    ELSE DigitsVal(t)

OggParsed == ParserReturned /\ parser = "Ogg Vorbis"

\* the sample rate and the nominal bitrate of the identification header of
\* stream s, which follows the first page header and its segment table, the
\* packet type, "vorbis", the Vorbis version and the channel count; and the
\* granule position of page bytes p, which follows the capture pattern, the
\* version and the header type
OggIDPacketAt(s) == oggPageHeaderLen + s[oggPageHeaderLen]
StreamOggSampleRate(s) ==
    LittleEndian(SubSeq(s, OggIDPacketAt(s) + 13, OggIDPacketAt(s) + 16))
StreamOggNominalBitrate(s) ==
    LittleEndian(SubSeq(s, OggIDPacketAt(s) + 21, OggIDPacketAt(s) + 24))
PageGranule(p) == LittleEndian(SubSeq(p, 7, 14))

\* C15: for every Ogg Vorbis stream New parses, Duration() is floor(G /
\* SampleRate) seconds, G being the granule position of the page whose "OggS"
\* is the last in the final 4096 bytes, and Bitrate() is floor(NominalBitrate
\* / 1000).
C15_OggDurationAndBitrate ==
    (OggParsed /\ Len(LastPageOf(stream)) >= 14
        /\ StreamOggSampleRate(stream) # 0) =>
        /\ OggDuration.ns =
              DurationOfInt(PageGranule(LastPageOf(stream))
                                \div StreamOggSampleRate(stream))
        /\ OggBitrate = StreamOggNominalBitrate(stream) \div 1000

\* the state C15 excludes: a parser whose Duration() is 0 for a stream at
\* 44100 Hz whose last page has granule position 220500 and version byte 1
C15_UnsetDuration ==
    /\ OggParsed
    /\ StreamOggSampleRate(stream) = 44100
    /\ StreamOggNominalBitrate(stream) = 192000
    /\ Len(LastPageOf(stream)) >= 14
    /\ PageGranule(LastPageOf(stream)) = 220500
    /\ LastPageOf(stream)[5] = 1
    /\ OggDuration.ns = Zeros(8)
    /\ OggBitrate = 192

\* New has returned from its second call on the same bytes
ReturnedAgain == Returned /\ earlier # <<>>

CommentLength == LittleEndian(Slice(stream, pos, pos + 4))
CommentRead == Slice(stream, pos + 4, pos + 4 + CommentLength)
CommentStored ==
    /\ pc \in {"parseTagsComment", "parseOGGVorbisComment"}
    /\ todo' = todo - 1
    /\ pos + 4 + CommentLength <= Len(stream)

\* C17: the FLAC and the Ogg Vorbis comment loops split each comment at its
\* first "=" only: the text after the first "=", whole, is stored under the
\* upper-cased name in front of it, so "COMMENT=a=b" is stored as "a=b".
C17_SplitAtFirstEquals ==
    [][CommentStored =>
          LET equals == Index(CommentRead, <<61>>)
          IN equals # -1 =>
                Lookup(tagMap', ToUpper(Slice(CommentRead, 0, equals)), <<>>)
                    = Slice(CommentRead, equals + 1, Len(CommentRead))]_vars

\* the state C17 excludes: a parser whose COMMENT tag is "a" for a stream
\* that holds the comment "COMMENT=a=b"
C17_ValueCutAtSecondEquals ==
    /\ ParserReturned
    /\ parser \in {"FLAC", "Ogg Vorbis"}
    /\ Index(stream, tagComment \o <<61, 97, 61, 98>>) # -1
    /\ Comment = <<97>>

\* the turn of the frame loop that reads a frame ID starting with byte 255
\* and hands the bytes read to the MPEG header stage
HeaderPushedBack ==
    /\ pc = "parseID3v2Frames"
    /\ pc' = "parseMP3Header"
    /\ mem' # mem

\* the bytes of the stream this turn has read: the frame ID and what follows
BytesReadThisTurn == Slice(stream, pos, pos')

\* C18: when the frame loop reads a frame ID whose first byte is 255, the MPEG
\* header stage is given exactly the ID bytes followed by the bytes of the
\* stream after them, in their order, and behind them nothing that an
\* earlier frame has left in the buffer, however few bytes the stream has left.
C18_HeaderStageSeesStreamBytes ==
    [][HeaderPushedBack =>
          mem'.buf = BytesReadThisTurn
                         \o Zeros(Len(mem'.buf) - Len(BytesReadThisTurn))]_vars

\* the state C18 excludes: the header stage has been given a byte 49, the "1"
\* of the track number frame read before, for a stream that ends one byte
\* after the frame ID
C18_StalePayloadByte ==
    /\ format = "MP3"
    /\ pc = "parseMP3Header"
    /\ mem # NoMem
    /\ pos = Len(stream)
    /\ Len(mem.buf) >= 6
    /\ mem.buf[1] = 255
    /\ mem.buf[6] = 49
    /\ stream[Len(stream)] # 49

\* parseID3v2Header has read the size of an extended header, which ends 4
\* bytes after the 10-byte ID3v2 header, sought past the extended header and
\* gone on to the frames
ExtendedHeaderSkipped ==
    /\ pc = "parseID3v2Header"
    /\ pc' = "parseID3v2Frames"
    /\ id3Header'.Extended

\* C19: while the FLAC or the MP3 parser runs, the offset of the caller's
\* stream never decreases; for every size an ID3v2 extended header declares,
\* the seek past it leaves the offset no lower than the read of the size
\* left it.
C19_OffsetNeverDecreases ==
    [][format' \in {"FLAC", "MP3"} =>
          /\ pos' >= pos
          /\ ExtendedHeaderSkipped => pos' >= id3HeaderLen + 4]_vars

\* the state C19 excludes: the frame loop about to read the frames from
\* offset 10, inside the size field of an extended header of declared size 0
C19_SoughtBackIntoSize ==
    /\ format = "MP3"
    /\ pc = "parseID3v2Frames"
    /\ id3Header.Extended
    /\ BigEndian(Slice(stream, id3HeaderLen, id3HeaderLen + 4)) = 0
    /\ pos = id3HeaderLen
    /\ tagMap = EmptyMap

\* The frame at the cursor of the frame loop, as the bytes of the stream give
\* it: the ID of 3 bytes (major version 2) or 4, the size of 3 bytes or 4,
\* big-endian, for versions 3 and 4 two flag bytes, and the payload.
FrameIDLen == IF id3Header.MajorVersion = 2 THEN 3 ELSE 4
FrameID == Slice(stream, pos, pos + FrameIDLen)
FrameSize == BigEndian(Slice(stream, pos + FrameIDLen, pos + 2 * FrameIDLen))
FramePayloadAt ==
    pos + 2 * FrameIDLen + (IF id3Header.MajorVersion = 2 THEN 0 ELSE 2)
FramePayload == Slice(stream, FramePayloadAt, FramePayloadAt + FrameSize)

\* a turn of the frame loop at a frame whose header the stream holds all of
\* and whose ID begins with neither 0 nor 255
FrameTurn ==
    /\ pc = "parseID3v2Frames"
    /\ FramePayloadAt <= Len(stream)
    /\ FrameID[1] \notin {0, 255}

\* a payload without its first byte and without one trailing NUL
WithoutEncodingAndNUL(payload) ==
    LET text == Slice(payload, 1, Len(payload))
    IN IF text # <<>> /\ text[Len(text)] = 0
       THEN Slice(text, 0, Len(text) - 1) ELSE text

\* C20: in the ID3v2 frame loop a frame whose ID is "APIC" or whose declared
\* size is above 2048 stores no tag and moves the cursor by its declared size
\* to the next frame ID; every other frame whose ID is in the table stores,
\* under the tag name of the table, its payload without the first byte and
\* without one trailing NUL.  The ID has 3 bytes and the size 24 bits for
\* major version 2; the ID has 4 bytes and the size 32 bits, with 2 flag
\* bytes skipped, for versions 3 and 4.
C20_FrameSkippedOrStored ==
    [][FrameTurn =>
          IF FrameID = mp3APICFrame \/ FrameSize > mp3TagBufLen
          THEN /\ tagMap' = tagMap
               /\ pos' = FramePayloadAt + FrameSize
               /\ pc' = "parseID3v2Frames"
          ELSE (FrameID \in DOMAIN mp3ID3v2FrameToTag
                   /\ FramePayloadAt + FrameSize <= Len(stream))
                  => /\ tagMap' = Store(tagMap, mp3ID3v2FrameToTag[FrameID],
                                        WithoutEncodingAndNUL(FramePayload))
                     /\ pos' = FramePayloadAt + FrameSize
                     /\ pc' = "parseID3v2Frames"]_vars

\* the state C20 excludes: New has panicked in the frame loop at a TIT2 frame
\* of declared size 0, with no tag stored
C20_EmptyFramePanics ==
    /\ format = "MP3"
    /\ Returned
    /\ err = "panic"
    /\ tagMap = EmptyMap
    /\ Len(stream) > id3HeaderLen + 10
    /\ Slice(stream, id3HeaderLen, id3HeaderLen + 4) = titleTIT2
    /\ BigEndian(Slice(stream, id3HeaderLen + 4, id3HeaderLen + 8)) = 0

\* The metadata block header at the cursor of the loop of parseTags, as the
\* bytes of the stream give it: the last-block flag and the 7-bit type in
\* one byte, then the 24-bit length, big-endian.
BlockTurn == pc = "parseTags" /\ pos + flacBlockHeaderLen <= Len(stream)
BlockIsLast == stream[pos + 1] >= 128
BlockType == stream[pos + 1] % 128
BlockLength == BigEndian(Slice(stream, pos + 1, pos + flacBlockHeaderLen))
BlockEnd == pos + flacBlockHeaderLen + BlockLength

\* the vendor string and the comment count of the VORBIS_COMMENT block whose
\* header is at the cursor
VendorLength == LittleEndian(Slice(stream, pos + 4, pos + 8))
VendorRead == Slice(stream, pos + 8, pos + 8 + VendorLength)
CommentCount ==
    LittleEndian(Slice(stream, pos + 8 + VendorLength, pos + 12 + VendorLength))

\* C21: after STREAMINFO the FLAC parser reads the block headers in order; it
\* skips a block whose type is not 4 by exactly its declared length; it
\* parses the first block of type 4, also when that block has the last-block
\* flag; and at a block with the last-block flag and another type New
\* succeeds with every tag accessor and Encoder() empty.  (Of a block that
\* the stream ends in, the bytes that are there are skipped; where none are
\* there the read fails with EOF, as the read of the next header would.)
C21_BlocksSkippedUntilComment ==
    [][BlockTurn =>
          IF BlockType = flacVorbisComment
          THEN /\ pc' # "parseTags"
               /\ (pos + 8 <= Len(stream)
                      /\ pos + 12 + VendorLength <= Len(stream))
                     => /\ encoder' = VendorRead
                        /\ todo' = CommentCount
                        /\ pos' = pos + 12 + VendorLength
                        /\ err' = "nil"
          ELSE IF BlockIsLast
          THEN /\ pc' = "done"
               /\ err' = "nil"
               /\ parser' = "FLAC"
               /\ FLACEncoder' = <<>>
               /\ \A name \in TagNames : Tag(name)' = <<>>
          ELSE \/ /\ BlockEnd <= Len(stream)
                  /\ pos' = BlockEnd
                  /\ pc' = "parseTags"
                  /\ err' = "nil"
               \/ /\ BlockEnd >= Len(stream)
                  /\ pc' = "done"
                  /\ err' = "EOF"
                  /\ parser' = "nil"
               \/ /\ BlockEnd > Len(stream)
                  /\ pos' = Len(stream)
                  /\ pc' = "parseTags"]_vars

\* New has succeeded without tags for a stream with a padding block of two
\* bytes, skipped, and a padding block with the last-block flag in front of a
\* VORBIS_COMMENT block, which is not read
C21_Witness ==
    /\ FLACParsed
    /\ FirstBlockType(stream) = 0
    /\ Slice(stream, 42, 46) = <<1, 0, 0, 2>>
    /\ stream[49] = 129
    /\ pos = 52
    /\ Len(stream) > 60
    /\ FLACEncoder = <<>>
    /\ Tag(tagArtist) = <<>>


\* the places of an Ogg Vorbis stream s the header stages come to: the second
\* page follows the identification packet, the comment packet follows the
\* header and the segment table of the second page
oggIDPacketLen == 1 + Len(oggVorbisVorbisWord) + 4 + 1 + 16 + 2
OggSecondPageAt(s) == OggIDPacketAt(s) + oggIDPacketLen
OggCommentPacketAt(s) ==
    OggSecondPageAt(s) + oggPageHeaderLen + s[OggSecondPageAt(s) + oggPageHeaderLen]

\* the packet at offset p of s has all of its type byte and word, and the
\* word is not "vorbis" or the type is not the type wanted
PacketViolation(s, p, type) ==
    /\ Len(s) >= p + 1 + Len(oggVorbisVorbisWord)
    /\ \/ Slice(s, p + 1, p + 1 + Len(oggVorbisVorbisWord)) # oggVorbisVorbisWord
       \/ s[p + 1] # type

\* a violation in the first page or in the identification packet of s
FirstPageViolation(s) ==
    \/ Len(s) > Len(oggMagicNumber) /\ s[Len(oggMagicNumber) + 1] # 0
    \/ /\ Len(s) >= oggPageHeaderLen
       /\ \/ PacketViolation(s, OggIDPacketAt(s), 1)
          \/ /\ Len(s) >= OggIDPacketAt(s) + 1 + Len(oggVorbisVorbisWord) + 4
             /\ LittleEndian(Slice(s, OggIDPacketAt(s) + 1 + Len(oggVorbisVorbisWord),
                                   OggIDPacketAt(s) + 1 + Len(oggVorbisVorbisWord) + 4)) # 0

\* a violation in the second page or in the comment packet of s
SecondPageViolation(s) ==
    /\ Len(s) >= oggPageHeaderLen
    /\ Len(s) >= OggSecondPageAt(s) + Len(oggMagicNumber)
    /\ \/ ~StartsWith(Slice(s, OggSecondPageAt(s), Len(s)), oggMagicNumber)
       \/ /\ Len(s) > OggSecondPageAt(s) + Len(oggMagicNumber)
          /\ s[OggSecondPageAt(s) + Len(oggMagicNumber) + 1] # 0
       \/ /\ Len(s) >= OggSecondPageAt(s) + oggPageHeaderLen
          /\ PacketViolation(s, OggCommentPacketAt(s), 3)

\* the duration scan is about to look for the last page of a stream whose
\* last 4096 bytes hold no "OggS"
NoPageInTail ==
    /\ pc = "parseOGGVorbisDuration"
    /\ Len(stream) >= oggTailLen
    /\ LastIndex(TailWindow(stream), oggMagicNumber) = -1

\* New fails with InvalidStream and returns no parser
InvalidStreamReturned == Returned /\ err = "InvalidStream" /\ parser = "nil"

\* the structural part of C22: each violation ends in InvalidStream
OggViolationsInvalid ==
    /\ (/\ Returned'
        /\ StartsWith(stream, oggMagicNumber)
        /\ FirstPageViolation(stream) \/ SecondPageViolation(stream))
          => InvalidStreamReturned'
    /\ NoPageInTail => InvalidStreamReturned'

\* C22 as stated: for a stream starting with "OggS", a page header version
\* byte other than 0 on the first or second page, a second page not beginning
\* with "OggS", a packet without the word "vorbis" after its type byte, a first
\* packet of a type other than 1 or a second packet of a type other than 3, a
\* Vorbis version other than 0, and no "OggS" in the last 4096 bytes each make
\* New fail with InvalidStream and return no parser; the capture pattern of
\* the first page is never read again.
C22_OggViolationsInvalidStream ==
    [][/\ OggViolationsInvalid
       /\ (format' = "Ogg Vorbis" /\ low' # -1) => low' >= Len(oggMagicNumber)]_vars

\* C22 amended: the same violations end in InvalidStream, and the capture
\* pattern of the first page is read again only by the duration scan, which
\* reads the last 4096 bytes of the stream, in a stream shorter than 4096 + 4
\* bytes.
C22_OggViolationsInvalidStreamTailScan ==
    [][/\ OggViolationsInvalid
       /\ (format' = "Ogg Vorbis" /\ low' # -1 /\ low' < Len(oggMagicNumber)) =>
             /\ pc = "parseOGGVorbisDuration"
             /\ low' = Len(stream) - oggTailLen]_vars

\* a stream with a second page of version 1 has been refused as invalid
C22_Witness ==
    /\ InvalidStreamReturned
    /\ StartsWith(stream, oggMagicNumber)
    /\ ~FirstPageViolation(stream)
    /\ Len(stream) > OggSecondPageAt(stream) + Len(oggMagicNumber)
    /\ StartsWith(Slice(stream, OggSecondPageAt(stream), Len(stream)), oggMagicNumber)
    /\ stream[OggSecondPageAt(stream) + Len(oggMagicNumber) + 1] = 1


\* the 11-bit frame sync of the bytes parseMP3Header takes as the MPEG audio
\* frame header: the first byte and the top three bits of the second
FrameSync == headerBuf.data[1] * 8 + headerBuf.data[2] \div 32
frameSyncAllOnes == 2^11 - 1

\* C23: an MP3 parse succeeds only if the 11-bit frame sync of the bytes taken
\* as the MPEG audio frame header is all ones (0x7FF); a 0xFF byte followed by
\* a byte whose top three bits are not all set is never accepted as the header.
C23_FrameSyncAllOnes ==
    (ParserReturned /\ parser = "MP3") =>
        /\ Len(headerBuf.data) >= 2
        /\ FrameSync = frameSyncAllOnes

\* the state C23 excludes: an MP3 parser returned without error from a header
\* whose second byte has none of the top three bits set
C23_ParserFromBrokenSync ==
    /\ ParserReturned
    /\ parser = "MP3"
    /\ err = "nil"
    /\ headerBuf.data[1] = 255
    /\ headerBuf.data[2] \div 32 = 0


\* C24: the raw tag lookup is the same in the three formats: on the same
\* stored tag dictionary and for the same query name, Tag(name) of the FLAC,
\* of the MP3 and of the Ogg Vorbis parser return the same string, also for a
\* name that is not in upper case.
C24_TagSameInAllFormats ==
    ParserReturned =>
        \A name \in TagNames :
            /\ FLACTag(name) = MP3Tag(name)
            /\ MP3Tag(name) = OggTag(name)

\* the state C24 excludes: a parser returned with an artist stored, for which
\* the FLAC lookup of "artist" finds the artist and the MP3 and Ogg Vorbis
\* lookups find nothing
C24_LowerCaseNameDiffers ==
    /\ ParserReturned
    /\ Artist # <<>>
    /\ FLACTag(txtArtistLower) = Artist
    /\ MP3Tag(txtArtistLower) = <<>>
    /\ OggTag(txtArtistLower) = <<>>


\* the stages of New that parse tag data: Vorbis comments of FLAC and of Ogg
\* Vorbis, ID3v2 frames, and the Xing or Info header
TagDataStages ==
    {"parseTags", "parseTagsComment", "parseOGGVorbisCommentHeader",
     "parseOGGVorbisComment", "parseID3v2Frames", "parseMP3HeaderFields"}

\* C25: no index or slice out of range is reachable while tag data is parsed:
\* a Vorbis comment without "=", an Ogg vendor string or comment longer than
\* the 128-byte buffer, an ID3v2 frame of size 0 and a Xing or Info marker in
\* the last 8 bytes of the header buffer each end in a returned error or a
\* returned parser, never in an abnormal abort.
C25_NoAbortInTagData ==
    [][(pc \in TagDataStages) => (err' # "panic")]_vars


\* no conversion of an infinite or undefined quotient to int has been made:
\* what the build does with it is still open
NoNonFiniteValue(b) == b.inf = IntOfNonFinite /\ b.nan = IntOfNonFinite

\* C26: no division by zero is reachable when duration or bitrate is computed:
\* a FLAC stream with sample rate 0, an Ogg Vorbis identification header with
\* sample rate 0 and an MPEG header with the reserved sample rate index 3 (or
\* a Xing frame count giving duration 0) end in an error from New or in a
\* duration or bitrate that is 0 or the fallback, never in an abnormal abort
\* or in an undefined value.
C26_NoDivisionByZero ==
    /\ (Returned /\ format = "Ogg Vorbis" /\ mem # NoMem) => err # "panic"
    /\ (Returned /\ format = "MP3") => NoNonFiniteValue(build)
    /\ FLACParsed => ~FLACDuration.panic


\* an MP3 stream has been parsed, and its 2-bit channel mode field, the top
\* two bits of the fourth byte of the MPEG audio frame header
MP3Parsed == ParserReturned /\ parser = "MP3"
MPEGChannelModeBits == headerBuf.data[4] \div 64

\* C27: for every parsed MP3 stream Channels() is 1 exactly when the 2-bit
\* channel mode field is 3 (single channel) and 2 for the modes 0, 1 and 2;
\* it is never 0, and every key of the channel mode table is a value of the
\* 2-bit field.
C27_ChannelsByMode ==
    /\ MP3Parsed =>
          /\ MP3Channels = (IF MPEGChannelModeBits = 3 THEN 1 ELSE 2)
          /\ MP3Channels # 0
    /\ DOMAIN mp3ChannelModeMap \subseteq 0..3

\* the state C27 excludes: a parsed MP3 stream of channel mode 2 (dual
\* channel) with Channels() 0
C27_DualChannelHasNoChannels ==
    /\ MP3Parsed
    /\ err = "nil"
    /\ mp3Header.ChannelMode = 2
    /\ MPEGChannelModeBits = 2
    /\ MP3Channels = 0


\* the highest bitrate of MPEG1 Layer III in kbps, the last value of the
\* bitrate table
maxBitrate == mp3BitrateMap[14]

\* C28: for every parsed MP3 stream Bitrate() lies in 0..320 kbps: a bitrate
\* computed from a Xing or Info header is used only when it is positive and is
\* never above 320; otherwise the value is the one of the fixed table for the
\* 4-bit bitrate index, and the values of the table, with 0 for the missing
\* index 15, lie in 0..320.
C28_BitrateInRange ==
    /\ maxBitrate = 320
    /\ \A i \in 0..15 : Lookup(mp3BitrateMap, i, 0) \in 0..maxBitrate
    /\ MP3Parsed =>
          /\ MP3Bitrate \in 0..maxBitrate
          /\ IF xingHeader # <<>> /\ xingHeader[1].Bitrate > 0
             THEN MP3Bitrate = xingHeader[1].Bitrate
             ELSE MP3Bitrate = Lookup(mp3BitrateMap, MPEGBitrateBits, 0)

\* an MP3 stream with a Xing header whose stream size and duration give more
\* than 320 kbps has been parsed, and Bitrate() is 320, not the 128 of the
\* bitrate index 9
C28_Witness ==
    /\ XingParsed
    /\ xingHeader[1].StreamSize = 536870911
    /\ xingHeader[1].Duration = 1
    /\ MPEGBitrateBits = 9
    /\ MP3Bitrate = maxBitrate


\* the last page of a stream s that starts with "OggS" and is shorter than the
\* tail window: the bytes from the last "OggS" of the whole stream on
LastPageOfShort(s) == Slice(s, LastIndex(s, oggMagicNumber), Len(s))

\* the duration search starts on a stream shorter than 4096 bytes whose
\* headers have been parsed, whose sample rate is not 0 and whose last page
\* header is whole and of version 0
ShortStreamSearch ==
    /\ pc = "parseOGGVorbisDuration"
    /\ Len(stream) < oggTailLen
    /\ StreamOggSampleRate(stream) # 0
    /\ ~PageHeaderUnparsable(LastPageOfShort(stream))

\* C29: the Ogg Vorbis duration search works for streams of any length: for a
\* stream shorter than 4096 bytes with valid identification and comment
\* headers and a valid last page the search window is the whole stream, New
\* succeeds and Duration() is floor(final granule position / sample rate).
C29_ShortStreamDuration ==
    [][ShortStreamSearch =>
          /\ pc' = "done"
          /\ err' = "nil"
          /\ parser' = "Ogg Vorbis"
          /\ low' = 0
          /\ duration' = PageGranule(LastPageOfShort(stream))
                            \div StreamOggSampleRate(stream)]_vars


\* the loops of New that scan the stream: the FLAC metadata blocks, the ID3v2
\* frames and the search for the MPEG audio frame header; a turn of such a
\* loop leaves the loop (to the next stage or to the return of New) or leaves
\* the reader further on in the same bytes
ScanLoops == {"parseTags", "parseID3v2Frames", "parseMP3Header"}
LoopTurnAdvances ==
    (pc \in ScanLoops) =>
        \/ pc' # pc
        \/ Rd'.buf = Rd.buf /\ Rd'.pos > Rd.pos

\* C30: New terminates on every finite input: each turn of the FLAC metadata
\* block scan, of the ID3v2 frame loop and of the MPEG header search loop stops
\* the loop, returns an error or strictly advances the stream position, so
\* that the end of the stream is reached and New returns a parser or an error.
C30_NewReturnsParserOrError ==
    /\ [][LoopTurnAdvances]_vars
    /\ <>(Returned /\ err # "panic")

====
